---- MODULE Spec2Model ----
(***************************************************************************)
(* QuantPerfector: the SM-2 memory model, the priority scorer, the         *)
(* selection pipeline and the session driver, as state machines.           *)
(*                                                                         *)
(* Numbers.  easeFactor is a JavaScript double that the code only ever     *)
(* moves by multiples of 0.02 from a multiple of 0.01, so it is kept in    *)
(* hundredths (250 is 2.5).  Times are milliseconds.  Dates are day        *)
(* numbers (the ISO date strings compare as the day numbers do), instants  *)
(* are hours since the epoch.                                              *)
(***************************************************************************)
EXTENDS Integers, Sequences, FiniteSets, TLC

VARIABLES
    rec,        \* the ProblemRecord under test (memory-model specifications)
    call,       \* the last call made on it: its inputs, the record before, the result
    prev,       \* the call before that one (gradeResponse only)
    now,        \* the clock: hours since the epoch, UTC
    tz,         \* the browser's time zone
    settings,   \* storage: profile.settings (enabled operations, operand ranges)
    store,      \* storage: problemRecords, key -> record
    currentPool,    \* engine: the in-memory pool, a sequence of record objects
    sessionAttempts,    \* driver: this session's attempts
    selection,  \* a selectNextProblem call not answered yet: its phase, what it returned
    state,      \* driver: IDLE | STARTING | WARMUP | CORE | CHALLENGE | PAUSED | REVIEWING
    pausedState,    \* driver: the state pauseSession left
    sessionMode,    \* driver: the mode of the session
    currentProblem, \* driver: the problem displayed, or null
    answerBuffer,   \* driver: the digits typed, a sequence
    timers,     \* the browser's pending setTimeout callbacks, in the order they were set
    sessionTimerInterval,   \* driver: whether the 200 ms interval is set
    problemAge, \* Date.now() - problemStartTime, in ms
    sessionClock,   \* Date.now() - sessionStartTime, as the share of sessionDurationMs
    resumeArmed,    \* ui: the pause overlay is shown, its resume handler registered
    turn,       \* the problems displayed in this session
    grades,     \* the processAnswer calls on the problem displayed, by their callers
    drillPool,  \* driver: the records getDrillProblems returned, a sequence
    syncQueue,  \* sync: the queue in memory, a sequence of items
    storedQueue,    \* localStorage[QUEUE_KEY], the queue as persistQueue wrote it
    syncing,    \* sync: _syncing, a flush is awaiting its commit
    flushTimer, \* sync: whether the timer of debouncedFlush is pending
    retryTimers,    \* the pending retry timers of flush, their number
    batch,      \* flush: the items spliced off the queue by the flush running or the last one
    failed,     \* flush: the entries of batch pushed to failed, as their indices
    sends,      \* the cloud: how often each enqueued item was written, by id
    sessions,   \* storage: the sessions saved, a sequence
    attemptLog  \* storage: the attempts logged, a sequence

sm2Vars == <<rec, call, prev>>
clockVars == <<now, tz>>
engineVars == <<settings, store, currentPool, sessionAttempts, selection>>
driverVars == <<state, pausedState, sessionMode, currentProblem, answerBuffer, timers,
                sessionTimerInterval, problemAge, sessionClock, resumeArmed,
                turn, grades, drillPool>>
syncVars == <<syncQueue, storedQueue, syncing, flushTimer, retryTimers, batch, failed,
              sends>>
logVars == <<sessions, attemptLog>>
vars == <<rec, call, prev, now, tz,
          settings, store, currentPool, sessionAttempts, selection,
          state, pausedState, sessionMode, currentProblem, answerBuffer, timers,
          sessionTimerInterval, problemAge, sessionClock, resumeArmed,
          turn, grades, drillPool,
          syncQueue, storedQueue, syncing, flushTimer, retryTimers, batch, failed, sends,
          sessions, attemptLog>>

----------------------------------------------------------------------------
(* Bounds of the model *)

MaxAttempts == 4        \* recordAttempt / updateSM2 calls on one record
MaxRecordAttempts == 3  \* recordAttempt calls on the record of SpecRecord
MaxStreakAttempts == 5  \* recordAttempt calls on the record of SpecStreak
MaxDay == 6             \* the clock stops at the end of this day
MaxSession == 2         \* attempts in one session (SpecEngine)
MaxAnswers == 2         \* attempts in all sessions together (SpecEngine)
MaxEngineDay == 2       \* the last day of SpecEngine
MaxTurns == 2           \* problems displayed in one session (SpecDriver)
MaxDigits == 1          \* digits typed into answerBuffer (SpecDriver)
MaxSaved == 2           \* sessions saved before the last one starts (SpecDriver)
TickStep == 2500        \* ms that pass at once when no callback is due sooner
MaxProblemAge == 12500  \* ms a problem stays displayed (SpecDriver)
MaxPrior == 4           \* attempts on one record before the app is loaded (SpecSession)
MaxFlowSession == 4     \* attempts in the flow session of SpecSession
MaxDrillSession == 2    \* attempts in the drill session of SpecSession
MaxOperand == 3         \* the largest range limit of SpecGen
MaxGenDepth == 2        \* nested generateRandomProblem calls counted (SpecGen)
MaxKeyOperand == 12     \* operands of SpecKey run from -1 to MaxKeyOperand
MaxMergeAttempts == 2   \* attempts on one record of SpecMerge
MaxScoreDay == 6        \* the last day of SpecScore
MaxCandidates == 6      \* problems in the pool of SpecFilter
MaxScoreSession == 6    \* attempts in the session of SpecScore
MaxTopPool == 11        \* the largest second factor of the pool of SpecTop
MaxTopSession == 1      \* answers before the selection SpecTop records
MaxEnqueue == 2         \* items enqueued in SpecSync
MaxQueue == 2           \* items in memory and in localStorage when the queue is reloaded
MaxSends == 2           \* writes of one item to the cloud
MaxLogId == 2           \* ids of sessions and attempts in SpecMergeLog
MaxLogTime == 2         \* start times and timestamps in SpecMergeLog
MaxLocalLog == 2        \* sessions and attempts in storage (SpecMergeLog)
MaxCloudLog == 2        \* sessions and attempts in the cloud data (SpecMergeLog)

----------------------------------------------------------------------------
(* Constants of the program *)

EASE_FACTOR == 250
maxRetries == 3
maxBatchSize == 100
MAX_SESSIONS == 100
MAX_ATTEMPTS == 5000
MIN_EASE == 130
MAX_EASE == 300
INITIAL_INTERVAL == 1
SECOND_INTERVAL == 3
NoDate == -1            \* nextReviewDate: null

Operations == {"add", "sub", "mul", "div"}
Qualities == {0, 1, 3, 4, 5}

Max(a, b) == IF a >= b THEN a ELSE b
Min(a, b) == IF a <= b THEN a ELSE b

----------------------------------------------------------------------------
(* The clock and Date *)

\* A time zone: the standard offset in hours and, when it observes daylight
\* saving time, the day on which local 02:00 standard time becomes 03:00.
TimeZones ==
    { [off |-> 0, dst |-> FALSE, dstDay |-> 0],
      [off |-> -5, dst |-> TRUE, dstDay |-> 3],
      [off |-> 1, dst |-> TRUE, dstDay |-> 3],
      [off |-> 9, dst |-> FALSE, dstDay |-> 0] }

\* The instant (UTC hour) at which a zone's daylight saving time starts.
DstStart(z) == z.dstDay * 24 + 2 - z.off

\* Date.prototype.getTimezoneOffset, as local - UTC in hours, at instant t.
OffsetAt(z, t) == IF z.dst /\ t >= DstStart(z) THEN z.off + 1 ELSE z.off

\* The instant of a local wall-clock time w (hours), as Date's setters
\* compute it; a wall time in the skipped hour takes the offset before it.
LocalToUTC(z, w) ==
    IF ~z.dst \/ w - z.off < DstStart(z) THEN w - z.off
    ELSE IF w - (z.off + 1) >= DstStart(z) THEN w - (z.off + 1)
    ELSE w - z.off

\* new Date().toISOString().split('T')[0]: the UTC date of the instant.
IsoDate(t) == t \div 24

today == IsoDate(now)

\* new Date(dateStr) is UTC midnight of that date; getDate/setDate work on the
\* local calendar (the time of day is kept); toISOString is UTC again.
addDays(dateStr, days) ==
    LET d0 == dateStr * 24
        w0 == d0 + OffsetAt(tz, d0)
        w1 == w0 + 24 * days
    IN  IsoDate(LocalToUTC(tz, w1))

----------------------------------------------------------------------------
(* SM-2 *)

\* gradeResponse that fails a correct answer slower than half the limit.
gradeResponseSlowFails(isCorrect, responseTimeMs, timerLimitMs, timedOut) ==
    IF timedOut THEN 0
    ELSE IF ~isCorrect THEN 1
    ELSE IF timerLimitMs > 0 /\ 4 * responseTimeMs <= timerLimitMs THEN 5
    ELSE IF timerLimitMs > 0 /\ 2 * responseTimeMs <= timerLimitMs THEN 4
    ELSE 2

\* gradeResponse with the timedOut and isCorrect tests in the other order.
gradeResponseCorrectFirst(isCorrect, responseTimeMs, timerLimitMs, timedOut) ==
    IF ~isCorrect THEN 1
    ELSE IF timedOut THEN 0
    ELSE IF timerLimitMs > 0 /\ 4 * responseTimeMs <= timerLimitMs THEN 5
    ELSE IF timerLimitMs > 0 /\ 2 * responseTimeMs <= timerLimitMs THEN 4
    ELSE 3

\* ratio = responseTimeMs / timerLimitMs is compared with 0.25 and 0.50 (both
\* exact doubles, and the quotient of two integers this small never rounds
\* across them); with a zero limit the ratio is Infinity or NaN and both
\* comparisons are false.
gradeResponse(isCorrect, responseTimeMs, timerLimitMs, timedOut) ==
    IF timedOut THEN 0
    ELSE IF ~isCorrect THEN 1
    ELSE IF timerLimitMs > 0 /\ 4 * responseTimeMs <= timerLimitMs THEN 5
    ELSE IF timerLimitMs > 0 /\ 2 * responseTimeMs <= timerLimitMs THEN 4
    ELSE 3

createProblemRecord(key, operation, a, b, answer) ==
    [ key |-> key, operation |-> operation, operandA |-> a, operandB |-> b,
      correctAnswer |-> answer,
      easeFactor |-> EASE_FACTOR, interval |-> 0, repetitions |-> 0,
      nextReviewDate |-> NoDate,
      totalAttempts |-> 0, totalCorrect |-> 0, totalTimeMs |-> 0,
      lastResponseTimeMs |-> 0, streak |-> 0, bestStreak |-> 0 ]

TestRecord == createProblemRecord(<<"mul", 6, 7>>, "mul", 6, 7, 42)

\* Math.round(interval * easeFactor): the nearest integer, a half rounded up.
\* The product is a double: where the exact product is a half, the double is
\* the half or a hair beside it, and the result is either neighbour.
MathRoundProduct(interval, ease) ==
    LET p == interval * ease
    IN  IF p % 100 = 50 THEN {p \div 100, p \div 100 + 1}
        ELSE {(p + 50) \div 100}

\* EaseDelta for a pass only: a failure leaves the ease as it is.
EaseDeltaOnPass(quality) ==
    IF quality >= 3 THEN 10 - (5 - quality) * (8 + (5 - quality) * 2) ELSE 0

\* 0.1 - (5 - q) * (0.08 + (5 - q) * 0.02), in hundredths.
EaseDelta(quality) == 10 - (5 - quality) * (8 + (5 - quality) * 2)

\* ClampEase without its lower bound.
ClampEaseUpperOnly(e) == Min(MAX_EASE, e)

ClampEase(e) == Max(MIN_EASE, Min(MAX_EASE, e))

NextEase(r, quality) == ClampEase(r.easeFactor + EaseDelta(quality))

\* NextIntervals with the ease adjusted before the interval is computed.
NextIntervalsAdjustedEase(r, quality) ==
    IF quality >= 3
    THEN IF r.repetitions = 0 THEN {INITIAL_INTERVAL}
         ELSE IF r.repetitions = 1 THEN {SECOND_INTERVAL}
         ELSE MathRoundProduct(r.interval, NextEase(r, quality))
    ELSE {0}

\* The intervals updateSM2 can give a record for a quality.
NextIntervals(r, quality) ==
    IF quality >= 3
    THEN IF r.repetitions = 0 THEN {INITIAL_INTERVAL}
         ELSE IF r.repetitions = 1 THEN {SECOND_INTERVAL}
         ELSE MathRoundProduct(r.interval, r.easeFactor)
    ELSE {0}

\* NextRepetitions that resets on a timeout only.
NextRepetitionsTimeoutOnly(r, quality) ==
    IF quality >= 3 THEN r.repetitions + 1
    ELSE IF quality = 0 THEN 0 ELSE r.repetitions

NextRepetitions(r, quality) ==
    IF quality >= 3 THEN r.repetitions + 1 ELSE 0

NextReviewDate(interval) == addDays(today, interval)

\* updateSM2(record, quality), with the rounded interval iv.
updateSM2(r, quality, iv) ==
    [r EXCEPT !.interval = iv,
              !.repetitions = NextRepetitions(r, quality),
              !.easeFactor = NextEase(r, quality),
              !.nextReviewDate = NextReviewDate(iv)]

\* Tally without the else branch: a wrong answer leaves the streak.
TallyKeepsStreak(r, isCorrect, responseTimeMs) ==
    LET s == IF isCorrect THEN r.streak + 1 ELSE r.streak
    IN  [r EXCEPT !.totalAttempts = @ + 1,
                  !.totalTimeMs = @ + responseTimeMs,
                  !.lastResponseTimeMs = responseTimeMs,
                  !.totalCorrect = IF isCorrect THEN @ + 1 ELSE @,
                  !.streak = s,
                  !.bestStreak = IF isCorrect /\ s > @ THEN s ELSE @]

\* Tally with bestStreak compared before the streak is incremented.
TallyStaleBest(r, isCorrect, responseTimeMs) ==
    [r EXCEPT !.totalAttempts = @ + 1,
              !.totalTimeMs = @ + responseTimeMs,
              !.lastResponseTimeMs = responseTimeMs,
              !.totalCorrect = IF isCorrect THEN @ + 1 ELSE @,
              !.streak = IF isCorrect THEN @ + 1 ELSE 0,
              !.bestStreak = IF isCorrect /\ r.streak > @ THEN r.streak ELSE @]

\* recordAttempt's own bookkeeping, before it calls updateSM2.
Tally(r, isCorrect, responseTimeMs) ==
    LET s == IF isCorrect THEN r.streak + 1 ELSE 0
    IN  [r EXCEPT !.totalAttempts = @ + 1,
                  !.totalTimeMs = @ + responseTimeMs,
                  !.lastResponseTimeMs = responseTimeMs,
                  !.totalCorrect = IF isCorrect THEN @ + 1 ELSE @,
                  !.streak = s,
                  !.bestStreak = IF isCorrect /\ s > @ THEN s ELSE @]

recordAttempt(r, isCorrect, responseTimeMs, timerLimitMs, timedOut, iv) ==
    updateSM2(Tally(r, isCorrect, responseTimeMs),
              gradeResponse(isCorrect, responseTimeMs, timerLimitMs, timedOut), iv)

----------------------------------------------------------------------------
(* Settings and the record store *)

OpOrder == <<"add", "sub", "mul", "div">>

\* The operand ranges of the model's settings (settings.operationRanges
\* without the enabled flags): one or two values per operand.  The sub range
\* has minA < minB, so generateRangeProblems finds no a > b in it.
ModelRanges ==
    [ add |-> [minA |-> 10, maxA |-> 10, minB |-> 10, maxB |-> 10],
      sub |-> [minA |-> 5, maxA |-> 5, minB |-> 9, maxB |-> 9],
      mul |-> [minA |-> 2, maxA |-> 2, minB |-> 2, maxB |-> 3],
      div |-> [minA |-> 2, maxA |-> 3, minB |-> 2, maxB |-> 2] ]

\* Object.keys(operationRanges).filter(op => operationRanges[op].enabled)
EnabledOps(st) == st.enabled

\* loadAll().problemRecords: a function from the stored keys to their records.
EmptyStore == [k \in {} |-> TestRecord]

getProblemRecord(key) == IF key \in DOMAIN store THEN store[key] ELSE [isNull |-> TRUE]

\* problemRecords[key] = record
StorePut(st, key, r) == [k \in DOMAIN st \cup {key} |-> IF k = key THEN r ELSE st[k]]

\* `${operation}:${lo}x${hi}` for add and mul, `${operation}:${a}x${b}` otherwise;
\* the string is kept as the triple it spells.
canonicalizeProblemKey(operation, a, b) ==
    IF operation \in {"add", "mul"}
    THEN <<operation, Min(a, b), Max(a, b)>>
    ELSE <<operation, a, b>>

----------------------------------------------------------------------------
(* The pool *)

\* A pool entry is a record object: r is its value, shared says that it is
\* the very object the store holds under its key.
PoolEntry(r, shared) == [r |-> r, shared |-> shared]

ensureRecord(operation, a, b, answer) ==
    LET key == canonicalizeProblemKey(operation, a, b)
    IN  IF key \in DOMAIN store
        THEN PoolEntry(store[key], TRUE)
        ELSE PoolEntry(createProblemRecord(key, operation, a, b, answer), FALSE)

\* What one iteration of generateRangeProblems' inner loop can push for the
\* bucket (tensA, tensB): nothing, or one pair.
RangeDraws(operation, range, tensA, tensB) ==
    LET as == {Min(range.maxA, tensA * 10 + da) : da \in 0..9}
        bs == {Min(range.maxB, tensB * 10 + db) : db \in 0..9}
    IN  { IF a < range.minA \/ b < range.minB THEN <<>>
          ELSE IF operation = "sub" /\ a <= b THEN <<>>
          ELSE << <<a, b>> >>
          : a \in as, b \in bs }

\* The buckets in loop order, three iterations each.
RangeSlots(range) ==
    LET ta == (range.minA \div 10)..(range.maxA \div 10)
        tb == (range.minB \div 10)..(range.maxB \div 10)
        na == Cardinality(ta)
        nb == Cardinality(tb)
    IN  [i \in 1..(na * nb * 3) |->
            << (range.minA \div 10) + ((i - 1) \div (nb * 3)),
               (range.minB \div 10) + (((i - 1) \div 3) % nb) >>]

RECURSIVE RangeSeqs(_, _, _)
RangeSeqs(operation, range, slots) ==
    IF slots = <<>> THEN {<<>>}
    ELSE { d \o rest :
             d \in RangeDraws(operation, range, Head(slots)[1], Head(slots)[2]),
             rest \in RangeSeqs(operation, range, Tail(slots)) }

\* The sequences of {a, b} generateRangeProblems can return.
generateRangeProblems(operation, range) ==
    RangeSeqs(operation, range, RangeSlots(range))

\* The mul pairs in loop order: a from minA to maxA, b from a to maxB.
RECURSIVE MulPairs(_, _, _)
MulPairs(range, a, b) ==
    IF a > range.maxA THEN <<>>
    ELSE IF b > range.maxB THEN MulPairs(range, a + 1, a + 1)
    ELSE << <<a, b>> >> \o MulPairs(range, a, b + 1)

\* The div pairs in loop order: divisor from minB to maxB, quotient from minA
\* to maxA.
RECURSIVE DivPairs(_, _, _)
DivPairs(range, divisor, quotient) ==
    IF divisor > range.maxB THEN <<>>
    ELSE IF quotient > range.maxA THEN DivPairs(range, divisor + 1, range.minA)
    ELSE << <<divisor, quotient>> >> \o DivPairs(range, divisor, quotient + 1)

MapSeq(s, F(_)) == [i \in 1..Len(s) |-> F(s[i])]

\* The pool entries buildProblemPool pushes for one operation.
PoolPart(op, st) ==
    LET range == st.ranges[op]
        AddE(p) == ensureRecord("add", p[1], p[2], p[1] + p[2])
        SubE(p) == ensureRecord("sub", p[1], p[2], p[1] - p[2])
        MulE(p) == ensureRecord("mul", p[1], p[2], p[1] * p[2])
        DivE(p) == ensureRecord("div", p[1] * p[2], p[1], p[2])
    IN  IF op \notin st.enabled THEN {<<>>}
        ELSE IF op = "mul" THEN {MapSeq(MulPairs(range, range.minA, range.minA), MulE)}
        ELSE IF op = "div" THEN {MapSeq(DivPairs(range, range.minB, range.minA), DivE)}
        ELSE IF op = "add"
             THEN {MapSeq(ps, AddE) : ps \in generateRangeProblems("add", range)}
        ELSE {MapSeq(ps, SubE) : ps \in generateRangeProblems("sub", range)}

\* The pools buildProblemPool can build.
buildProblemPool(st) ==
    { a \o b \o c \o d :
        a \in PoolPart("add", st), b \in PoolPart("sub", st),
        c \in PoolPart("mul", st), d \in PoolPart("div", st) }

----------------------------------------------------------------------------
(* On-the-fly generation *)

Problem(operation, a, b, answer) ==
    [operation |-> operation, a |-> a, b |-> b, answer |-> answer,
     key |-> canonicalizeProblemKey(operation, a, b)]

NullProblem == [isNull |-> TRUE]

\* The problems generateRandomProblem(operation) can return; for sub a draw
\* of equal operands is drawn again.
generateRandomProblem(operation, st) ==
    LET range == st.ranges[operation]
        A == range.minA..range.maxA
        B == range.minB..range.maxB
    IN  IF operation = "add" THEN {Problem("add", a, b, a + b) : a \in A, b \in B}
        ELSE IF operation = "sub"
             THEN {Problem("sub", Max(a, b), Min(a, b), Max(a, b) - Min(a, b)) :
                     <<a, b>> \in {p \in A \X B : p[1] # p[2]}}
        ELSE IF operation = "mul" THEN {Problem("mul", a, b, a * b) : a \in A, b \in B}
        ELSE {Problem("div", divisor * quotient, divisor, quotient) :
                divisor \in B, quotient \in A}

----------------------------------------------------------------------------
(* Priority scoring.  A score is a rational; it is kept as the integer      *)
(* score * ScoreDen.  A priority has the denominators 10 (the ease term)     *)
(* and totalAttempts (the accuracy term); the interleaving multiplier adds   *)
(* a factor 2 and a balance multiplier a factor 2 or 5.  ScoreDen holds all  *)
(* of them for records of up to MaxPrior + MaxFlowSession attempts, the most *)
(* a record of any specification has.                                        *)

RECURSIVE Gcd(_, _)
Gcd(a, b) == IF b = 0 THEN a ELSE Gcd(b, a % b)

RECURSIVE LcmUpTo(_)
LcmUpTo(n) == IF n <= 1 THEN 1 ELSE (LcmUpTo(n - 1) * n) \div Gcd(LcmUpTo(n - 1), n)

ScoreDen == 20 * LcmUpTo(MaxPrior + MaxFlowSession)

\* Factor 1 without the bonus of a problem never seen.
DueBonusSeenOnly(r) ==
    IF r.nextReviewDate = NoDate THEN 0
    ELSE IF today >= r.nextReviewDate
         THEN Min(30, 10 + (today - r.nextReviewDate) * 5)
         ELSE 0

\* Factor 1: due for review.
DueBonus(r) ==
    IF r.nextReviewDate = NoDate THEN 20
    ELSE IF today >= r.nextReviewDate
         THEN Min(30, 10 + (today - r.nextReviewDate) * 5)
         ELSE 0

\* Factor 2: (1 - totalCorrect / totalAttempts) * 40
AccuracyBonus(r) ==
    IF r.totalAttempts > 0
    THEN ((r.totalAttempts - r.totalCorrect) * 40 * ScoreDen) \div r.totalAttempts
    ELSE 0

\* Factor 3 measured from the default ease: (EASE_FACTOR - easeFactor) * 10
EaseBonusFromDefault(r) == ((EASE_FACTOR - r.easeFactor) * ScoreDen) \div 10

\* Factor 3: (MAX_EASE - easeFactor) * 10
EaseBonus(r) == ((MAX_EASE - r.easeFactor) * ScoreDen) \div 10

\* Factor 4: the session's wrong attempts on this problem.
SessionWrong(r, attempts) ==
    Cardinality({i \in 1..Len(attempts) :
                    attempts[i].problemKey = r.key /\ ~attempts[i].isCorrect})

\* Factor 5 with the loop run from the front: the first attempt on the
\* problem counts, not the most recent one.
RecencyPenaltyFirstAttempt(r, attempts, totalSessionProblems) ==
    LET hits == {i \in 1..Len(attempts) : attempts[i].problemKey = r.key}
    IN  IF hits = {} THEN 0
        ELSE LET lastIdx == (CHOOSE i \in hits : \A j \in hits : j >= i) - 1
                 problemsSince == totalSessionProblems - lastIdx - 1
             IN  IF problemsSince < 5 THEN (5 - problemsSince) * 20 ELSE 0

\* Factor 5: the recency penalty; 0 when the problem was not attempted.
RecencyPenalty(r, attempts, totalSessionProblems) ==
    LET hits == {i \in 1..Len(attempts) : attempts[i].problemKey = r.key}
    IN  IF hits = {} THEN 0
        ELSE LET lastIdx == (CHOOSE i \in hits : \A j \in hits : j <= i) - 1
                 problemsSince == totalSessionProblems - lastIdx - 1
             IN  IF problemsSince < 5 THEN (5 - problemsSince) * 20 ELSE 0

\* Factor 6: totalTimeMs / totalAttempts > 7000
SlowBonus(r) ==
    IF r.totalAttempts > 0 /\ r.totalTimeMs > 7000 * r.totalAttempts THEN 10 ELSE 0

\* The score before the final Math.max(0, score).
RawPriority(r, attempts, totalSessionProblems) ==
    (50 + DueBonus(r) + 15 * SessionWrong(r, attempts) + SlowBonus(r)
        - RecencyPenalty(r, attempts, totalSessionProblems)) * ScoreDen
    + AccuracyBonus(r) + EaseBonus(r)

\* Math.max(0, score) left out.
FloorScoreNone(score) == score

FloorScore(score) == Max(0, score)

\* calculatePriority returning the score as it is before Math.max(0, score).
calculatePriorityUnclamped(r, attempts, totalSessionProblems) ==
    RawPriority(r, attempts, totalSessionProblems)

calculatePriority(r, attempts, totalSessionProblems) ==
    FloorScore(RawPriority(r, attempts, totalSessionProblems))

----------------------------------------------------------------------------
(* Selection *)

Scored(r, score) == [record |-> r, score |-> score]

\* The candidates taken from the pool's own objects, without the merge.
CandidatesPoolOnly(pool, st, persisted) ==
    LET Own(e) == e.r
        IsEnabled(r) == r.operation \in EnabledOps(st)
    IN  SelectSeq(MapSeq(pool, Own), IsEnabled)

\* The candidates with the persisted state taken only for the pool objects
\* that are the store's own.
CandidatesOwnOnly(pool, st, persisted) ==
    LET Merge(e) == IF e.shared /\ e.r.key \in DOMAIN persisted
                    THEN persisted[e.r.key] ELSE e.r
        IsEnabled(r) == r.operation \in EnabledOps(st)
    IN  SelectSeq(MapSeq(pool, Merge), IsEnabled)

\* currentPool.map(r => persisted[r.key] || r).filter(enabled)
Candidates(pool, st, persisted) ==
    LET Merge(e) == IF e.r.key \in DOMAIN persisted THEN persisted[e.r.key] ELSE e.r
        IsEnabled(r) == r.operation \in EnabledOps(st)
    IN  SelectSeq(MapSeq(pool, Merge), IsEnabled)

IsEasy(r) == r.easeFactor >= 230 \/ r.totalAttempts = 0

\* acc < 0.7 is totalCorrect / totalAttempts < 0.7
IsHard(r) ==
    /\ r.totalAttempts # 0
    /\ (r.easeFactor < 200 \/ 10 * r.totalCorrect < 7 * r.totalAttempts)

\* PhaseFilter without the minimum sizes: the subset is taken whatever its size.
PhaseFilterAnySize(candidates, phase) ==
    IF phase = "warmup" THEN SelectSeq(candidates, IsEasy)
    ELSE IF phase = "challenge" THEN SelectSeq(candidates, IsHard)
    ELSE candidates

PhaseFilter(candidates, phase) ==
    IF phase = "warmup"
    THEN LET easy == SelectSeq(candidates, IsEasy)
         IN  IF Len(easy) >= 5 THEN easy ELSE candidates
    ELSE IF phase = "challenge"
    THEN LET hard == SelectSeq(candidates, IsHard)
         IN  IF Len(hard) >= 3 THEN hard ELSE candidates
    ELSE candidates

\* applyInterleaving without the hard exclusion after two attempts of one
\* operation.
applyInterleavingNoExclusion(scored, attempts) ==
    IF Len(attempts) = 0 THEN scored
    ELSE IF Len(attempts) >= 2
            /\ attempts[Len(attempts) - 1].operation = attempts[Len(attempts)].operation
    THEN scored
    ELSE LET lastOp == attempts[Len(attempts)].operation
             Soft(x) == IF x.record.operation = lastOp
                        THEN [x EXCEPT !.score = @ \div 2] ELSE x
         IN  MapSeq(scored, Soft)

\* applyInterleaving with the soft penalty where the exclusion would leave no
\* candidate.
applyInterleavingSoftWhenStuck(scored, attempts) ==
    IF Len(attempts) = 0 THEN scored
    ELSE LET lastOp == attempts[Len(attempts)].operation
             Soft(x) == IF x.record.operation = lastOp
                        THEN [x EXCEPT !.score = @ \div 2] ELSE x
             NotBlocked(x) == x.record.operation # lastOp
             filtered == SelectSeq(scored, NotBlocked)
         IN  IF Len(attempts) >= 2
                /\ attempts[Len(attempts) - 1].operation = attempts[Len(attempts)].operation
                /\ Len(filtered) > 0
             THEN filtered
             ELSE MapSeq(scored, Soft)

applyInterleaving(scored, attempts) ==
    IF Len(attempts) = 0 THEN scored
    ELSE IF Len(attempts) >= 2
            /\ attempts[Len(attempts) - 1].operation = attempts[Len(attempts)].operation
    THEN LET blocked == attempts[Len(attempts) - 1].operation
             NotBlocked(x) == x.record.operation # blocked
             filtered == SelectSeq(scored, NotBlocked)
         IN  IF Len(filtered) > 0 THEN filtered ELSE scored
    ELSE LET lastOp == attempts[Len(attempts)].operation
             Soft(x) == IF x.record.operation = lastOp
                        THEN [x EXCEPT !.score = @ \div 2] ELSE x
         IN  MapSeq(scored, Soft)

\* counts[op] for an enabled op: the session's attempts of that operation.
OpCount(op, attempts) ==
    Cardinality({i \in 1..Len(attempts) : attempts[i].operation = op})

\* balanceOperations dropping the candidates of an over-represented operation
\* instead of rescaling them.
balanceOperationsExcluding(scored, attempts, enabledOps) ==
    IF Len(attempts) < 4 THEN scored
    ELSE LET total == Len(attempts)
             n == Cardinality(enabledOps)
             Kept(x) == ~(10 * OpCount(x.record.operation, attempts) * n > 13 * total)
         IN  SelectSeq(scored, Kept)

\* balanceOperations without the wait for 4 attempts: applied from the first.
balanceOperationsFromFirst(scored, attempts, enabledOps) ==
    IF Len(attempts) < 1 THEN scored
    ELSE LET total == Len(attempts)
             n == Cardinality(enabledOps)
             Bal(x) ==
                LET c == OpCount(x.record.operation, attempts)
                IN  IF 10 * c * n < 7 * total THEN [x EXCEPT !.score = (@ * 3) \div 2]
                    ELSE IF 10 * c * n > 13 * total THEN [x EXCEPT !.score = (@ * 3) \div 5]
                    ELSE x
         IN  MapSeq(scored, Bal)

\* actual < expected * 0.7 is count / total < 0.7 / n; actual > expected * 1.3
\* is count / total > 1.3 / n.
balanceOperations(scored, attempts, enabledOps) ==
    IF Len(attempts) < 4 THEN scored
    ELSE LET total == Len(attempts)
             n == Cardinality(enabledOps)
             Bal(x) ==
                LET c == OpCount(x.record.operation, attempts)
                IN  IF 10 * c * n < 7 * total THEN [x EXCEPT !.score = (@ * 3) \div 2]
                    ELSE IF 10 * c * n > 13 * total THEN [x EXCEPT !.score = (@ * 3) \div 5]
                    ELSE x
         IN  MapSeq(scored, Bal)

\* The position (from 0) of item i after the stable sort by descending score.
SortRank(items, i) ==
    Cardinality({j \in 1..Len(items) : items[j].score > items[i].score})
    + Cardinality({j \in 1..(i - 1) : items[j].score = items[i].score})

\* The sliced candidates without the slice: the whole sorted list.
TopIndicesAll(items, k) == 1..Len(items)

\* balanced.sort(...).slice(0, Math.min(10, balanced.length)), as the set of
\* the indices kept.
TopIndices(items, k) == {i \in 1..Len(items) : SortRank(items, i) < k}

\* weightedRandom(top): every item has weight max(1, score) > 0, so every
\* item of top can be the one returned.
weightedRandom(items, top) == {items[i] : i \in top}

ProblemOf(r) ==
    [operation |-> r.operation, a |-> r.operandA, b |-> r.operandB,
     answer |-> r.correctAnswer, key |-> r.key]

\* The scored, interleaved and balanced candidates of a selectNextProblem call.
FinalScored(attempts, phase) ==
    LET candidates == PhaseFilter(Candidates(currentPool, settings, store), phase)
        Score(r) == Scored(r, calculatePriority(r, attempts, Len(attempts)))
    IN  balanceOperations(applyInterleaving(MapSeq(candidates, Score), attempts),
                          attempts, EnabledOps(settings))

\* selectNextProblem without the fallback: null when no candidate is left.
selectNextProblemNoFallback(attempts, phase) ==
    IF EnabledOps(settings) = {} THEN {NullProblem}
    ELSE IF Len(Candidates(currentPool, settings, store)) = 0
    THEN {NullProblem}
    ELSE LET balanced == FinalScored(attempts, phase)
         IN  {ProblemOf(x.record) :
                x \in weightedRandom(balanced, TopIndices(balanced, 10))}

\* What selectNextProblem(sessionAttempts, phase) can return.
selectNextProblem(attempts, phase) ==
    IF EnabledOps(settings) = {} THEN {NullProblem}
    ELSE IF Len(Candidates(currentPool, settings, store)) = 0
    THEN UNION {generateRandomProblem(op, settings) : op \in EnabledOps(settings)}
    ELSE LET balanced == FinalScored(attempts, phase)
         IN  {ProblemOf(x.record) :
                x \in weightedRandom(balanced, TopIndices(balanced, 10))}

----------------------------------------------------------------------------
(* weightedRandom, draw by draw.  A draw is Math.random() * totalWeight, a   *)
(* real in [0, totalWeight); it is kept times ScoreDen, as the scores are.   *)

\* Math.max(1, item.score)
\* The weight without the floor of 1: the score itself.
WeightNoFloor(item) == item.score

Weight(item) == Max(ScoreDen, item.score)

\* The items the indices of top stand for, in sorted order: the array top.
TopSeq(items, top) ==
    [j \in 1..Cardinality(top) |-> items[CHOOSE i \in top : SortRank(items, i) = j - 1]]

\* The weights of the first n items, summed.
RECURSIVE CumWeight(_, _)
CumWeight(list, n) == IF n = 0 THEN 0 ELSE CumWeight(list, n - 1) + Weight(list[n])

TotalWeight(list) == CumWeight(list, Len(list))

\* The loop of weightedRandom from item i on, r being what is left of the
\* draw; past the last item, the last item.
RECURSIVE WeightedWalk(_, _, _)
WeightedWalk(list, i, r) ==
    IF i > Len(list) THEN list[Len(list)]
    ELSE IF r - Weight(list[i]) <= 0 THEN list[i]
    ELSE WeightedWalk(list, i + 1, r - Weight(list[i]))

\* weightedRandom(list) for the draw r.
weightedRandomAt(list, r) == WeightedWalk(list, 1, r)

\* The draws tried: the ends of [0, totalWeight) and the draws at and next
\* to every boundary between two items.
Draws(list) ==
    ({0, TotalWeight(list) - 1}
       \cup UNION {{CumWeight(list, n) - 1, CumWeight(list, n), CumWeight(list, n) + 1} :
                      n \in 1..Len(list)})
    \cap (0..(TotalWeight(list) - 1))

----------------------------------------------------------------------------
(* Mistake drill *)

\* The filter without the test on totalAttempts, for records with an attempt.
DrillableAnyAttempts(r, st) ==
    /\ r.operation \in EnabledOps(st)
    /\ r.totalAttempts >= 1
    /\ (10 * r.totalCorrect < 7 * r.totalAttempts \/ r.easeFactor < 180)

\* The filter of getDrillProblems; acc < 0.7 is totalCorrect / totalAttempts < 0.7.
Drillable(r, st) ==
    /\ r.operation \in EnabledOps(st)
    /\ r.totalAttempts >= 2
    /\ (10 * r.totalCorrect < 7 * r.totalAttempts \/ r.easeFactor < 180)

\* The records of S that no record of S has a lower accuracy than.
LeastAccurate(S) ==
    {r \in S : \A q \in S :
        r.totalCorrect * q.totalAttempts <= q.totalCorrect * r.totalAttempts}

\* The orders the sort by accA - accB can leave S in.  The sort is stable;
\* the order of Object.values(allRecords), the order the keys were first
\* stored in, is not kept by the model, so records of one accuracy come in
\* any order.
RECURSIVE SortedByAccuracy(_)
SortedByAccuracy(S) ==
    IF S = {} THEN {<<>>}
    ELSE UNION {{<<r>> \o t : t \in SortedByAccuracy(S \ {r})} : r \in LeastAccurate(S)}

\* What getDrillProblems() can return.
getDrillProblems(st, persisted) ==
    SortedByAccuracy({persisted[k] : k \in {x \in DOMAIN persisted :
                                              Drillable(persisted[x], st)}})

\* The scored and interleaved drill pool of a selectDrillProblem call.
DrillScored(pool, attempts) ==
    LET Score(r) == Scored(r, calculatePriority(r, attempts, Len(attempts)))
    IN  applyInterleaving(MapSeq(pool, Score), attempts)

\* selectDrillProblem with top holding all of the pool.
selectDrillProblemNoTop(pool, attempts) ==
    IF Len(pool) = 0 THEN {NullProblem}
    ELSE LET interleaved == DrillScored(pool, attempts)
         IN  {ProblemOf(x.record) :
                x \in weightedRandom(interleaved, 1..Len(interleaved))}

\* What selectDrillProblem(drillPool, sessionAttempts) can return.
selectDrillProblem(pool, attempts) ==
    IF Len(pool) = 0 THEN {NullProblem}
    ELSE LET interleaved == DrillScored(pool, attempts)
         IN  {ProblemOf(x.record) :
                x \in weightedRandom(interleaved, TopIndices(interleaved, 8))}

----------------------------------------------------------------------------
(* Which array the selection sorts *)

\* An array is named by where it lives: "currentPool" and "drillPool" are the
\* module's arrays, "local" is an array made during the call.

\* map and filter working on the array they are called on.
NewArrayInPlace(source) == source

\* Array.prototype.map and filter return a new array.
NewArray(source) == "local"

\* The array applyInterleaving returns, given the array it got.
InterleavedArray(scoredArray, scored, attempts) ==
    IF Len(attempts) = 0 THEN scoredArray
    ELSE IF Len(attempts) >= 2
            /\ attempts[Len(attempts) - 1].operation = attempts[Len(attempts)].operation
    THEN IF \E i \in 1..Len(scored) :
               scored[i].record.operation # attempts[Len(attempts)].operation
         THEN NewArray(scoredArray)
         ELSE scoredArray
    ELSE NewArray(scoredArray)

\* The array balanceOperations returns, given the array it got.
BalancedArray(scoredArray, attempts) ==
    IF Len(attempts) < 4 THEN scoredArray ELSE NewArray(scoredArray)

\* The candidates array after the phase filter: easy or hard, or candidates.
PhaseArray(candidatesArray, candidates, phase) ==
    IF Len(PhaseFilter(candidates, phase)) < Len(candidates)
    THEN NewArray(candidatesArray)
    ELSE candidatesArray

\* The array that balanced.sort(...) of selectNextProblem sorts in place.
SortedBySelectNext(attempts, phase) ==
    LET all == Candidates(currentPool, settings, store)
        candidates == PhaseFilter(all, phase)
        Score(r) == Scored(r, calculatePriority(r, attempts, Len(attempts)))
        candidatesArray == PhaseArray(NewArray(NewArray("currentPool")), all, phase)
        scoredArray == NewArray(candidatesArray)
    IN  BalancedArray(InterleavedArray(scoredArray, MapSeq(candidates, Score), attempts),
                      attempts)

\* The array that interleaved.sort(...) of selectDrillProblem sorts in place.
SortedBySelectDrill(pool, attempts) ==
    LET Score(r) == Scored(r, calculatePriority(r, attempts, Len(attempts)))
    IN  InterleavedArray(NewArray("drillPool"), MapSeq(pool, Score), attempts)

\* The records of items after items.sort((a, b) => b.score - a.score).
SortedRecords(items) ==
    LET sorted == TopSeq(items, 1..Len(items))
    IN  [i \in 1..Len(sorted) |-> sorted[i].record]

\* The module's arrays, the store and the session's attempts after
\* selectNextProblem(sessionAttempts, phase) has returned.  No statement of the
\* call assigns to a record, to the store or to sessionAttempts; the sort
\* changes the array it is called on.
AfterSelectNext(attempts, phase) ==
    LET sortedArray ==
            IF EnabledOps(settings) = {}
               \/ Len(Candidates(currentPool, settings, store)) = 0
            THEN "none"
            ELSE SortedBySelectNext(attempts, phase)
        records == SortedRecords(FinalScored(attempts, phase))
    IN  [currentPool |-> IF sortedArray = "currentPool"
                         THEN [i \in 1..Len(records) |->
                                 PoolEntry(records[i], records[i].key \in DOMAIN store)]
                         ELSE currentPool,
         drillPool |-> drillPool,
         store |-> store,
         sessionAttempts |-> attempts]

\* The same after selectDrillProblem(drillPool, sessionAttempts) has returned.
AfterSelectDrill(pool, attempts) ==
    LET sortedArray == IF Len(pool) = 0 THEN "none"
                       ELSE SortedBySelectDrill(pool, attempts)
    IN  [currentPool |-> currentPool,
         drillPool |-> IF sortedArray = "drillPool"
                       THEN SortedRecords(DrillScored(pool, attempts))
                       ELSE pool,
         store |-> store,
         sessionAttempts |-> attempts]

----------------------------------------------------------------------------
(* Inputs of the memory-model specifications *)

ResponseTimes == {0, 1250, 1251, 2500, 2501, 5000, 5001, 10000, 12000}
TimerLimits == {5000, 10000}
SM2Times == {1000, 4000, 8000}
RecordTimes == {1000, 8000}
SM2TimerLimit == 10000
StartEases == {MIN_EASE, 137, 207, EASE_FACTOR, 293, MAX_EASE}

NoCall == [op |-> "none", seq |-> 0]

NoSelection == [phase |-> "none", problem |-> NullProblem, open |-> FALSE]

\* No settings change, no pool, no session: the engine untouched.
EngineIdle ==
    /\ settings = [enabled |-> {}, ranges |-> ModelRanges]
    /\ store = EmptyStore
    /\ currentPool = <<>>
    /\ sessionAttempts = <<>>
    /\ selection = NoSelection

\* The driver before the first session; no timer is pending.
DriverIdle ==
    /\ state = "IDLE"
    /\ pausedState = "null"
    /\ sessionMode = "flow"
    /\ currentProblem = NullProblem
    /\ answerBuffer = <<>>
    /\ timers = <<>>
    /\ sessionTimerInterval = FALSE
    /\ problemAge = 0
    /\ sessionClock = 0
    /\ resumeArmed = FALSE
    /\ turn = 0
    /\ grades = <<>>
    /\ drillPool = <<>>

\* loadAll() over an empty localStorage: no session, no attempt.
LogEmpty ==
    /\ sessions = <<>>
    /\ attemptLog = <<>>

\* The sync module as loaded: loadQueue() over an empty localStorage.
SyncIdle ==
    /\ syncQueue = <<>>
    /\ storedQueue = <<>>
    /\ syncing = FALSE
    /\ flushTimer = FALSE
    /\ retryTimers = 0
    /\ batch = <<>>
    /\ failed = <<>>
    /\ sends = <<>>

----------------------------------------------------------------------------
(* SpecGrade: gradeResponse applied to every input *)

GradeInit ==
    /\ rec = TestRecord
    /\ call = NoCall
    /\ prev = NoCall
    /\ now = 24
    /\ tz \in {z \in TimeZones : ~z.dst /\ z.off = 0}
    /\ EngineIdle
    /\ DriverIdle
    /\ SyncIdle
    /\ LogEmpty

Grade ==
    \E isCorrect \in BOOLEAN, timedOut \in BOOLEAN,
       t \in ResponseTimes, limit \in TimerLimits :
        /\ call' = [op |-> "gradeResponse", seq |-> 1,
                    isCorrect |-> isCorrect, responseTimeMs |-> t,
                    timerLimitMs |-> limit, timedOut |-> timedOut,
                    result |-> gradeResponse(isCorrect, t, limit, timedOut)]
        /\ prev' = call
        /\ UNCHANGED <<rec, now, tz, engineVars, driverVars, syncVars, logVars>>

GradeNext == Grade

SpecGrade == GradeInit /\ [][GradeNext]_vars

----------------------------------------------------------------------------
(* SpecSM2: one record under updateSM2 and recordAttempt *)

\* The record of the interval-graduation scenario: two passes behind it, an
\* interval of 10 days, the default ease.
ScenarioRecord ==
    [TestRecord EXCEPT !.repetitions = 2, !.interval = 10, !.nextReviewDate = 1,
                       !.totalAttempts = 2, !.totalCorrect = 2, !.totalTimeMs = 8000,
                       !.lastResponseTimeMs = 4000, !.streak = 2, !.bestStreak = 2]

SM2Init ==
    /\ rec \in {[TestRecord EXCEPT !.easeFactor = e] : e \in StartEases}
               \cup {ScenarioRecord}
    /\ call = NoCall
    /\ prev = NoCall
    /\ now = 24
    /\ tz \in {z \in TimeZones : ~z.dst /\ z.off = 0}
    /\ EngineIdle
    /\ DriverIdle
    /\ SyncIdle
    /\ LogEmpty

\* recordAttempt(rec, ...), while fewer than n calls were made.
RecordAttemptUpTo(n, times) ==
    /\ call.seq < n
    /\ \E isCorrect \in BOOLEAN, timedOut \in BOOLEAN, t \in times :
        LET q == gradeResponse(isCorrect, t, SM2TimerLimit, timedOut)
        IN  \E iv \in NextIntervals(rec, q) :
              /\ rec' = recordAttempt(rec, isCorrect, t, SM2TimerLimit, timedOut, iv)
              /\ call' = [op |-> "recordAttempt", seq |-> call.seq + 1, pre |-> rec,
                          isCorrect |-> isCorrect, responseTimeMs |-> t,
                          timedOut |-> timedOut, quality |-> q, at |-> today]
    /\ UNCHANGED <<prev, now, tz, engineVars, driverVars, syncVars, logVars>>

SM2RecordAttempt == RecordAttemptUpTo(MaxAttempts, SM2Times)

SM2Update ==
    /\ call.seq < MaxAttempts
    /\ \E q \in Qualities : \E iv \in NextIntervals(rec, q) :
          /\ rec' = updateSM2(rec, q, iv)
          /\ call' = [op |-> "updateSM2", seq |-> call.seq + 1, pre |-> rec,
                      quality |-> q, at |-> today]
    /\ UNCHANGED <<prev, now, tz, engineVars, driverVars, syncVars, logVars>>

SM2Next == SM2RecordAttempt \/ SM2Update

SpecSM2 == SM2Init /\ [][SM2Next]_vars

----------------------------------------------------------------------------
(* SpecStreak: a new record under the recordAttempt calls the driver makes *)

\* What processAnswer is called with: by submitAnswer an answer right or
\* wrong after some time, timedOut false; by handleTimeout a wrong answer
\* after the whole limit, timedOut true.
DriverOutcomes ==
    { [isCorrect |-> c, responseTimeMs |-> t, timedOut |-> FALSE] :
          c \in BOOLEAN, t \in SM2Times }
    \cup { [isCorrect |-> FALSE, responseTimeMs |-> SM2TimerLimit, timedOut |-> TRUE] }

StreakInit ==
    /\ rec = TestRecord
    /\ call = NoCall
    /\ prev = NoCall
    /\ now = 24
    /\ tz \in {z \in TimeZones : ~z.dst /\ z.off = 0}
    /\ EngineIdle
    /\ DriverIdle
    /\ SyncIdle
    /\ LogEmpty

\* processAnswer's recordAttempt(rec, ...) on the record.
StreakAttempt ==
    /\ call.seq < MaxStreakAttempts
    /\ \E o \in DriverOutcomes :
        LET q == gradeResponse(o.isCorrect, o.responseTimeMs, SM2TimerLimit, o.timedOut)
        IN  \E iv \in NextIntervals(rec, q) :
              /\ rec' = recordAttempt(rec, o.isCorrect, o.responseTimeMs,
                                      SM2TimerLimit, o.timedOut, iv)
              /\ call' = [op |-> "recordAttempt", seq |-> call.seq + 1, pre |-> rec,
                          isCorrect |-> o.isCorrect, responseTimeMs |-> o.responseTimeMs,
                          timedOut |-> o.timedOut, quality |-> q, at |-> today]
    /\ UNCHANGED <<prev, now, tz, engineVars, driverVars, syncVars, logVars>>

StreakNext == StreakAttempt

SpecStreak == StreakInit /\ [][StreakNext]_vars

----------------------------------------------------------------------------
(* SpecRecord: a new record under recordAttempt, the days passing, in every *)
(* time zone                                                                *)

RecordInit ==
    /\ rec = TestRecord
    /\ call = NoCall
    /\ prev = NoCall
    /\ now = 24
    /\ tz \in TimeZones
    /\ EngineIdle
    /\ DriverIdle
    /\ SyncIdle
    /\ LogEmpty

\* Half a day passes.
AdvanceClock ==
    /\ IsoDate(now + 12) <= MaxDay
    /\ now' = now + 12
    /\ UNCHANGED <<rec, call, prev, tz, engineVars, driverVars, syncVars, logVars>>

RecordAttempt == RecordAttemptUpTo(MaxRecordAttempts, RecordTimes)

RecordNext == RecordAttempt \/ AdvanceClock

SpecRecord == RecordInit /\ [][RecordNext]_vars

----------------------------------------------------------------------------
(* SpecEngine: the engine as the driver uses it.  The pool is built at start *)
(* and after every settings change; each turn a problem is selected and the  *)
(* answer to it recorded; sessions begin; days pass.                         *)

Phases == {"warmup", "core", "challenge"}

EnabledChoices == {{}, {"sub"}, {"mul"}, {"add", "mul"}}

\* What the driver passes to recordAttempt: isCorrect, responseTimeMs, timedOut.
Outcomes ==
    { [isCorrect |-> TRUE, responseTimeMs |-> 1000, timedOut |-> FALSE],
      [isCorrect |-> FALSE, responseTimeMs |-> 8000, timedOut |-> FALSE],
      [isCorrect |-> FALSE, responseTimeMs |-> SM2TimerLimit, timedOut |-> TRUE] }

\* The attempt processAnswer appends, in the fields that any code reads back
\* (its id, sessionId, operands, answers, timestamp and phase are only logged).
Attempt(problem, o) ==
    [problemKey |-> problem.key, operation |-> problem.operation,
     isCorrect |-> o.isCorrect, responseTimeMs |-> o.responseTimeMs,
     timedOut |-> o.timedOut]

RECURSIVE SumAttempts(_, _)
SumAttempts(st, keys) ==
    IF keys = {} THEN 0
    ELSE LET k == CHOOSE x \in keys : TRUE
         IN  st[k].totalAttempts + SumAttempts(st, keys \ {k})

\* The attempts recorded in the store, over all sessions.
StoreAttempts == SumAttempts(store, DOMAIN store)

\* init(): loadAll, then buildProblemPool.
EngineInit ==
    /\ rec = TestRecord
    /\ call = NoCall
    /\ prev = NoCall
    /\ now = 24
    /\ tz \in {z \in TimeZones : ~z.dst /\ z.off = 0}
    /\ settings \in {[enabled |-> e, ranges |-> ModelRanges] : e \in EnabledChoices}
    /\ store = EmptyStore
    /\ currentPool \in buildProblemPool(settings)
    /\ sessionAttempts = <<>>
    /\ selection = NoSelection
    /\ DriverIdle
    /\ SyncIdle
    /\ LogEmpty

\* The settings screen's back button: saveSettings, then buildProblemPool.
ChangeSettings ==
    /\ sessionAttempts = <<>>
    /\ ~selection.open
    /\ \E e \in EnabledChoices \ {settings.enabled} :
          /\ settings' = [settings EXCEPT !.enabled = e]
          /\ currentPool' \in buildProblemPool(settings')
    /\ selection' = NoSelection
    /\ UNCHANGED <<sm2Vars, clockVars, store, sessionAttempts, driverVars, syncVars, logVars>>

\* The record processAnswer hands to recordAttempt.
RecordFor(problem) ==
    IF problem.key \in DOMAIN store THEN store[problem.key]
    ELSE createProblemRecord(problem.key, problem.operation,
                             problem.a, problem.b, problem.answer)

\* The pool after the store's object under key was changed in place to r.
PoolAfterUpdate(pool, key, r) ==
    [i \in 1..Len(pool) |->
        IF pool[i].shared /\ pool[i].r.key = key THEN PoolEntry(r, TRUE) ELSE pool[i]]

\* Whether another answer fits the bounds of the model.
CanAnswer(problem) ==
    /\ problem # NullProblem
    /\ Len(sessionAttempts) < MaxSession
    /\ StoreAttempts < MaxAnswers

\* One turn: nextProblem selects a problem, processAnswer records the answer:
\* recordAttempt on the problem's record, which is saved, and the attempt is
\* appended to the session's.
Turn ==
    /\ \E phase \in Phases : \E problem \in selectNextProblem(sessionAttempts, phase) :
        /\ CanAnswer(problem)
        /\ \E o \in Outcomes :
            LET old == RecordFor(problem)
                q == gradeResponse(o.isCorrect, o.responseTimeMs,
                                   SM2TimerLimit, o.timedOut)
            IN  \E iv \in NextIntervals(old, q) :
                LET new == recordAttempt(old, o.isCorrect, o.responseTimeMs,
                                         SM2TimerLimit, o.timedOut, iv)
                IN  /\ store' = StorePut(store, problem.key, new)
                    /\ currentPool' =
                         IF problem.key \in DOMAIN store
                         THEN PoolAfterUpdate(currentPool, problem.key, new)
                         ELSE currentPool
                    /\ sessionAttempts' =
                         Append(sessionAttempts, Attempt(problem, o))
                    /\ selection' = NoSelection
    /\ UNCHANGED <<sm2Vars, clockVars, settings, driverVars, syncVars, logVars>>

\* nextProblem selects a problem that is not answered: selectNextProblem
\* returned null, or the session ends here.
SelectNext ==
    /\ ~selection.open
    /\ \E phase \in Phases : \E problem \in selectNextProblem(sessionAttempts, phase) :
          /\ (problem = NullProblem \/ Len(sessionAttempts) >= MaxSession)
          /\ selection' = [phase |-> phase, problem |-> problem, open |-> TRUE]
    /\ UNCHANGED <<sm2Vars, clockVars, settings, store, currentPool, sessionAttempts, driverVars, syncVars, logVars>>

\* startSession: resetSessionState()
NewSession ==
    /\ sessionAttempts # <<>>
    /\ sessionAttempts' = <<>>
    /\ selection' = NoSelection
    /\ UNCHANGED <<sm2Vars, clockVars, settings, store, currentPool, driverVars, syncVars, logVars>>

\* A day passes between two sessions.
AdvanceDay ==
    /\ sessionAttempts = <<>>
    /\ ~selection.open
    /\ IsoDate(now + 24) <= MaxEngineDay
    /\ now' = now + 24
    /\ UNCHANGED <<sm2Vars, tz, engineVars, driverVars, syncVars, logVars>>

EngineNext ==
    \/ ChangeSettings \/ Turn \/ SelectNext \/ NewSession \/ AdvanceDay

SpecEngine == EngineInit /\ [][EngineNext]_vars

----------------------------------------------------------------------------
(* SpecDriver: the session driver.  One flow session after another: the     *)
(* countdown, the problems displayed, the keys, the per-problem timeout, the *)
(* feedback delay, pause and resume.  Each handler runs to its end; between  *)
(* handlers time passes and the pending setTimeout callbacks come due.       *)
(* Times are milliseconds.  The '-' key is not pressed, the drill screen is  *)
(* not entered, XP and streak are not kept.                                  *)

Running(s) == s \in {"WARMUP", "CORE", "CHALLENGE", "DRILLING"}

\* state.toLowerCase()
ToLowerCase(s) ==
    [IDLE |-> "idle", STARTING |-> "starting", WARMUP |-> "warmup", CORE |-> "core",
     CHALLENGE |-> "challenge", PAUSED |-> "paused", REVIEWING |-> "reviewing"][s]

\* SESSION_MODES[mode].warmupCount
WarmupCount(mode) == [sprint |-> 3, flow |-> 6, deep |-> 8][mode]

\* settings.timerSeconds * 1000
TimerMs == SM2TimerLimit

\* showCountdown: three numbers 800 ms each, then GO! for 500 ms.
CountdownMs == 3 * 800 + 500

\* The operand ranges of the driver's settings: one mul problem, 2 x 2.
DriverRanges ==
    [ModelRanges EXCEPT !.mul = [minA |-> 2, maxA |-> 2, minB |-> 2, maxB |-> 2]]

DriverEnabledChoices == {{}, {"mul"}}

\* The mode buttons pressed.
ModesPressed == {"sprint"}

\* The digit keys pressed: the answer to 2 x 2 and another.
DigitKeys == {4, 5}

\* parseInt(answerBuffer, 10), for a buffer of digits
RECURSIVE ParseInt(_)
ParseInt(buf) ==
    IF Len(buf) = 0 THEN 0
    ELSE 10 * ParseInt(SubSeq(buf, 1, Len(buf) - 1)) + buf[Len(buf)]

\* A pending setTimeout callback: what it calls, the ms left, and whether
\* problemTimerTimeout holds its id.
Timer(kind, left, held) == [kind |-> kind, left |-> left, held |-> held]

NotHeld(t) == ~t.held
Release(t) == [t EXCEPT !.held = FALSE]

\* The driver's variables as one value, for the handlers that call handlers.
Cur ==
    [state |-> state, pausedState |-> pausedState, sessionMode |-> sessionMode,
     currentProblem |-> currentProblem, answerBuffer |-> answerBuffer,
     timers |-> timers, sessionTimerInterval |-> sessionTimerInterval,
     problemAge |-> problemAge, sessionClock |-> sessionClock,
     resumeArmed |-> resumeArmed, turn |-> turn, grades |-> grades,
     store |-> store, currentPool |-> currentPool,
     sessionAttempts |-> sessionAttempts, sessions |-> sessions]

Install(d) ==
    /\ state' = d.state
    /\ pausedState' = d.pausedState
    /\ sessionMode' = d.sessionMode
    /\ currentProblem' = d.currentProblem
    /\ answerBuffer' = d.answerBuffer
    /\ timers' = d.timers
    /\ sessionTimerInterval' = d.sessionTimerInterval
    /\ problemAge' = d.problemAge
    /\ sessionClock' = d.sessionClock
    /\ resumeArmed' = d.resumeArmed
    /\ turn' = d.turn
    /\ grades' = d.grades
    /\ store' = d.store
    /\ currentPool' = d.currentPool
    /\ sessionAttempts' = d.sessionAttempts
    /\ sessions' = d.sessions

\* clearTimeout(problemTimerTimeout)
clearProblemTimer(d) == [d EXCEPT !.timers = SelectSeq(@, NotHeld)]

\* problemTimerTimeout = setTimeout(() => handleTimeout(), ms): the id held
\* before is dropped, its timer stays pending.
setProblemTimer(d, ms) ==
    [d EXCEPT !.timers = Append(MapSeq(@, Release), Timer("handleTimeout", ms, TRUE))]

\* resetSessionState
resetSessionState(d) ==
    [d EXCEPT !.answerBuffer = <<>>, !.sessionAttempts = <<>>,
              !.currentProblem = NullProblem, !.turn = 0, !.grades = <<>>]

\* startSession(mode): the countdown is one callback, due when it ends.
startSession(d, mode) ==
    [resetSessionState(d) EXCEPT
        !.sessionMode = mode, !.state = "STARTING",
        !.timers = Append(@, Timer("countdown", CountdownMs, FALSE))]

\* The session record endSession builds, in its mode and totalProblems.
Session(d) == [mode |-> d.sessionMode, totalProblems |-> Len(d.sessionAttempts)]

\* saveSession: data.sessions.push(session), then the last MAX_SESSIONS kept.
\* Nothing is enqueued for the cloud while Firebase is not initialised.
saveSession(log, session) ==
    LET l == Append(log, session)
    IN  IF Len(l) > MAX_SESSIONS THEN SubSeq(l, Len(l) - MAX_SESSIONS + 1, Len(l)) ELSE l

endSession(d) ==
    [clearProblemTimer(d) EXCEPT !.sessionTimerInterval = FALSE, !.state = "REVIEWING",
                                 !.sessions = saveSession(@, Session(d))]

\* displayProblem and the per-problem timer.
Display(d, problem) ==
    setProblemTimer(
        clearProblemTimer([d EXCEPT !.currentProblem = problem, !.problemAge = 0,
                                    !.turn = @ + 1, !.grades = <<>>]),
        TimerMs)

\* nextProblem: the driver states it can leave.  The store, the pool and the
\* session's attempts are the ones d was taken from.
nextProblem(d) ==
    IF d.state \in {"REVIEWING", "IDLE"} THEN {d}
    ELSE LET d1 == [d EXCEPT !.answerBuffer = <<>>]
         IN  UNION {
               IF problem # NullProblem THEN {Display(d1, problem)}
               ELSE IF EnabledOps(settings) = {}
                    THEN {endSession([d1 EXCEPT !.currentProblem = NullProblem])}
                    ELSE UNION {{Display(d1, g) : g \in generateRandomProblem(op, settings)} :
                                  op \in EnabledOps(settings)}
               : problem \in selectNextProblem(d.sessionAttempts, ToLowerCase(d.state)) }

\* processAnswer: recordAttempt on the record of currentProblem, the attempt
\* appended, nextProblem set to run after the feedback.
processAnswer(d, isCorrect, responseTimeMs, timerLimitMs, timedOut, by) ==
    LET p == d.currentProblem
        known == p.key \in DOMAIN d.store
        old == IF known THEN d.store[p.key]
               ELSE createProblemRecord(p.key, p.operation, p.a, p.b, p.answer)
        q == gradeResponse(isCorrect, responseTimeMs, timerLimitMs, timedOut)
        o == [isCorrect |-> isCorrect, responseTimeMs |-> responseTimeMs,
              timedOut |-> timedOut]
    IN  { LET new == recordAttempt(old, isCorrect, responseTimeMs, timerLimitMs,
                                   timedOut, iv)
          IN  [d EXCEPT
                 !.store = StorePut(@, p.key, new),
                 !.currentPool = IF known THEN PoolAfterUpdate(@, p.key, new) ELSE @,
                 !.sessionAttempts = Append(@, Attempt(p, o)),
                 !.timers = Append(@, Timer("nextProblem",
                                            IF isCorrect THEN 300 ELSE 2000, FALSE)),
                 !.grades = Append(@, by)]
          : iv \in NextIntervals(old, q) }

submitAnswer(d) ==
    IF d.currentProblem = NullProblem THEN {d}
    ELSE processAnswer(clearProblemTimer(d),
                       ParseInt(d.answerBuffer) = d.currentProblem.answer,
                       d.problemAge, TimerMs, FALSE, "submitAnswer")

handleTimeout(d) ==
    IF d.currentProblem = NullProblem THEN {d}
    ELSE processAnswer(d, FALSE, TimerMs, TimerMs, TRUE, "handleTimeout")

\* pauseSession; showPause registers the resume handler.
pauseSession(d) ==
    IF d.state = "PAUSED" THEN d
    ELSE [clearProblemTimer(d) EXCEPT
            !.pausedState = d.state, !.state = "PAUSED",
            !.sessionTimerInterval = FALSE, !.resumeArmed = TRUE]

\* onResume without its startSessionTimer().
onResumeNoSessionTimer(d) ==
    LET d1 == [d EXCEPT !.resumeArmed = FALSE, !.state = d.pausedState]
        remaining == TimerMs - d.problemAge
    IN  IF remaining > 0 THEN {setProblemTimer(d1, remaining)}
        ELSE handleTimeout(d1)

\* The callback pauseSession hands to showPause.
onResume(d) ==
    LET d1 == [d EXCEPT !.resumeArmed = FALSE, !.state = d.pausedState,
                        !.sessionTimerInterval = TRUE]
        remaining == TimerMs - d.problemAge
    IN  IF remaining > 0 THEN {setProblemTimer(d1, remaining)}
        ELSE handleTimeout(d1)

\* The interval's callback with the warmup target dropped.
onIntervalNoTarget(d) ==
    IF ~d.sessionTimerInterval THEN d
    ELSE LET d1 == IF d.state = "WARMUP" THEN [d EXCEPT !.state = "CORE"]
                   ELSE IF d.state = "CORE" /\ d.sessionClock >= 1
                        THEN [d EXCEPT !.state = "CHALLENGE"] ELSE d
         IN  IF d.sessionClock >= 2 THEN endSession(d1) ELSE d1

\* The callback of startSessionTimer's interval.
onInterval(d) ==
    IF ~d.sessionTimerInterval THEN d
    ELSE LET d1 == IF d.state = "WARMUP"
                   THEN IF Len(d.sessionAttempts) >= WarmupCount(d.sessionMode)
                        THEN [d EXCEPT !.state = "CORE"] ELSE d
                   ELSE IF d.state = "CORE" /\ d.sessionClock >= 1
                        THEN [d EXCEPT !.state = "CHALLENGE"] ELSE d
         IN  IF d.sessionClock >= 2 THEN endSession(d1) ELSE d1

\* Whether a handler may grade, and display, within the bounds of the model.
CanGrade(d) == d.currentProblem = NullProblem \/ StoreAttempts < MaxAnswers
CanDisplay(d) == d.state \in {"REVIEWING", "IDLE"} \/ d.turn < MaxTurns

Expired(i) == timers[i].left = 0

\* The callback that runs next: the first set of those that are due.
Due(i) == i \in 1..Len(timers) /\ Expired(i) /\ \A j \in 1..(i - 1) : ~Expired(j)

Without(s, i) == SubSeq(s, 1, i - 1) \o SubSeq(s, i + 1, Len(s))

MinLeft == CHOOSE m \in {timers[i].left : i \in 1..Len(timers)} :
              \A i \in 1..Len(timers) : m <= timers[i].left

\* init(): loadAll, buildProblemPool, the home screen.
DriverInit ==
    /\ rec = TestRecord
    /\ call = NoCall
    /\ prev = NoCall
    /\ now = 24
    /\ tz \in {z \in TimeZones : ~z.dst /\ z.off = 0}
    /\ settings \in {[enabled |-> e, ranges |-> DriverRanges] : e \in DriverEnabledChoices}
    /\ store = EmptyStore
    /\ currentPool \in buildProblemPool(settings)
    /\ sessionAttempts = <<>>
    /\ selection = NoSelection
    /\ DriverIdle
    /\ SyncIdle
    /\ LogEmpty

DriverUnchanged == UNCHANGED <<sm2Vars, clockVars, settings, selection, drillPool, syncVars, attemptLog>>

\* A mode button of the home screen.
HomeStart ==
    /\ state = "IDLE"
    /\ Len(sessions) < MaxSaved
    /\ \E mode \in ModesPressed : Install(startSession(Cur, mode))
    /\ DriverUnchanged

\* The review screen's again button.
ReviewAgain ==
    /\ state = "REVIEWING"
    /\ Len(sessions) < MaxSaved
    /\ Install(startSession(Cur, sessionMode))
    /\ DriverUnchanged

\* The review screen's done button.
ReviewDone ==
    /\ state = "REVIEWING"
    /\ Install([Cur EXCEPT !.state = "IDLE"])
    /\ DriverUnchanged

\* The countdown ends: the session timer starts, the first problem is shown.
FireCountdown ==
    /\ \E i \in 1..Len(timers) :
        /\ Due(i) /\ timers[i].kind = "countdown"
        /\ LET d0 == [Cur EXCEPT !.timers = Without(@, i), !.state = "WARMUP",
                                 !.sessionClock = 0, !.sessionTimerInterval = TRUE]
           IN  /\ CanDisplay(d0)
               /\ \E d \in nextProblem(d0) : Install(d)
    /\ DriverUnchanged

\* The feedback delay ends: setTimeout(() => nextProblem(), delay)
FireNextProblem ==
    /\ \E i \in 1..Len(timers) :
        /\ Due(i) /\ timers[i].kind = "nextProblem"
        /\ LET d0 == [Cur EXCEPT !.timers = Without(@, i)]
           IN  /\ CanDisplay(d0)
               /\ \E d \in nextProblem(d0) : Install(d)
    /\ DriverUnchanged

\* The per-problem timer ends: setTimeout(() => handleTimeout(), timerMs)
FireHandleTimeout ==
    /\ \E i \in 1..Len(timers) :
        /\ Due(i) /\ timers[i].kind = "handleTimeout"
        /\ LET d0 == [Cur EXCEPT !.timers = Without(@, i)]
           IN  /\ CanGrade(d0)
               /\ \E d \in handleTimeout(d0) : Install(d)
    /\ DriverUnchanged

\* A digit key: appendDigit
KeyDigit ==
    /\ Running(state)
    /\ Len(answerBuffer) < MaxDigits
    /\ \E k \in DigitKeys :
          Install([Cur EXCEPT !.answerBuffer = IF Len(@) >= 6 THEN @ ELSE Append(@, k)])
    /\ DriverUnchanged

\* Backspace or Delete: deleteLastDigit
KeyDelete ==
    /\ Running(state)
    /\ answerBuffer # <<>>
    /\ Install([Cur EXCEPT !.answerBuffer = SubSeq(@, 1, Len(@) - 1)])
    /\ DriverUnchanged

\* Enter
KeyEnter ==
    /\ Running(state)
    /\ Len(answerBuffer) > 0
    /\ CanGrade(Cur)
    /\ \E d \in submitAnswer(Cur) : Install(d)
    /\ DriverUnchanged

\* Escape, the pause button, or the page hidden.
Pause ==
    /\ Running(state)
    /\ Install(pauseSession(Cur))
    /\ DriverUnchanged

\* The resume button of the pause overlay.
Resume ==
    /\ resumeArmed
    /\ CanGrade(Cur)
    /\ \E d \in onResume(Cur) : Install(d)
    /\ DriverUnchanged

\* Time passes, to the next callback due or by TickStep; the interval's
\* callback runs meanwhile.
Tick ==
    /\ \A i \in 1..Len(timers) : ~Expired(i)
    /\ timers # <<>> \/ resumeArmed
    /\ \E dt \in (IF timers = <<>> THEN {TickStep} ELSE {MinLeft, Min(MinLeft, TickStep)}) :
        /\ currentProblem # NullProblem => problemAge + dt <= MaxProblemAge
        /\ \E c \in {sessionClock, Min(2, sessionClock + 1)} :
            LET Age(t) == [t EXCEPT !.left = @ - dt]
                d0 == [Cur EXCEPT
                         !.timers = MapSeq(@, Age),
                         !.problemAge = IF currentProblem # NullProblem THEN @ + dt ELSE @,
                         !.sessionClock = IF sessionTimerInterval THEN c ELSE @]
            IN  Install(onInterval(onInterval(d0)))
    /\ DriverUnchanged

DriverNext ==
    \/ HomeStart \/ ReviewAgain \/ ReviewDone
    \/ FireCountdown \/ FireNextProblem \/ FireHandleTimeout
    \/ KeyDigit \/ KeyDelete \/ KeyEnter
    \/ Pause \/ Resume \/ Tick

SpecDriver == DriverInit /\ [][DriverNext]_vars

----------------------------------------------------------------------------
(* SpecLive: the session driver with time passing, and no key pressed: the   *)
(* problems time out.  A callback that is due runs; the interval set by      *)
(* startSessionTimer sees the remaining time go down for as long as it is    *)
(* set again and again; the resume button is pressed after every pause.      *)

\* A callback that is due, the resume handler or the passing of time is held
\* back by a bound of the model.
Blocked ==
    \/ \E i \in 1..Len(timers) :
          /\ Due(i)
          /\ \/ timers[i].kind = "countdown" /\ turn >= MaxTurns
             \/ timers[i].kind = "nextProblem" /\ ~CanDisplay(Cur)
             \/ timers[i].kind = "handleTimeout" /\ ~CanGrade(Cur)
    \/ resumeArmed /\ ~CanGrade(Cur)
    \/ /\ \A i \in 1..Len(timers) : ~Expired(i)
       /\ currentProblem # NullProblem
       /\ problemAge + (IF timers = <<>> THEN TickStep ELSE Min(MinLeft, TickStep))
             > MaxProblemAge

\* The callback that is due runs.
FireCallback == FireCountdown \/ FireNextProblem \/ FireHandleTimeout

\* Every callback takes its timer off the pending ones, Resume disarms the
\* resume handler, and the ticks meant are those in which the interval's
\* callback sees less time remaining.
LiveFairness ==
    /\ WF_timers(FireCallback)
    /\ WF_resumeArmed(Resume)
    /\ SF_sessionClock(Tick)

LiveNext ==
    \/ HomeStart \/ ReviewAgain \/ ReviewDone
    \/ FireCountdown \/ FireNextProblem \/ FireHandleTimeout
    \/ Pause \/ Resume \/ Tick

SpecLive == DriverInit /\ [][LiveNext]_vars /\ LiveFairness

----------------------------------------------------------------------------
(* SpecSession: the app loaded over the records of earlier sessions; then a  *)
(* flow session of up to MaxFlowSession answers, or the drill screen and a   *)
(* drill session of up to MaxDrillSession answers.                           *)

\* The problems of the earlier sessions: under ranges wider than the ones set
\* now, so that some are in the pool and some are not.
PriorProblems ==
    << Problem("mul", 2, 2, 4), Problem("add", 10, 10, 20), Problem("mul", 2, 3, 6),
       Problem("add", 10, 11, 21), Problem("mul", 3, 3, 9), Problem("add", 11, 11, 22),
       Problem("mul", 3, 4, 12), Problem("add", 11, 12, 23), Problem("mul", 4, 4, 16),
       Problem("mul", 2, 4, 8), Problem("div", 6, 2, 3) >>

\* An answer of an earlier session: wrong, correct and fast, correct and slow.
PriorOutcome(tag) ==
    [w |-> [isCorrect |-> FALSE, responseTimeMs |-> 8000, timedOut |-> FALSE],
     c |-> [isCorrect |-> TRUE, responseTimeMs |-> 1000, timedOut |-> FALSE],
     s |-> [isCorrect |-> TRUE, responseTimeMs |-> 8000, timedOut |-> FALSE]][tag]

\* The answers one problem got in the earlier sessions.
HistoryKinds ==
    << <<"w">>, <<>>, <<"w", "w">>, <<"w", "c">>, <<"w", "s", "s", "s">>,
       <<"c", "c">>, <<"w", "w", "c">>, <<"c", "w", "c">>,
       <<"w", "w", "w", "c">> >>

\* The kinds that leave a record for the drill, in turn.
WeakKinds == <<3, 4, 7, 8, 9, 5>>

PriorPatterns == {"none", "mixed", "weak"}

\* The history of the i-th problem under a pattern, within MaxPrior answers.
PriorHistory(pattern, i) ==
    LET h == IF pattern = "none" THEN <<>>
             ELSE IF pattern = "mixed" THEN HistoryKinds[((i - 1) % Len(HistoryKinds)) + 1]
             ELSE HistoryKinds[WeakKinds[((i - 1) % Len(WeakKinds)) + 1]]
    IN  IF Len(h) <= MaxPrior THEN h ELSE <<>>

\* The records recordAttempt can leave of r after the answers of h.
RECURSIVE RecordsAfter(_, _)
RecordsAfter(r, h) ==
    IF h = <<>> THEN {r}
    ELSE LET o == PriorOutcome(Head(h))
             q == gradeResponse(o.isCorrect, o.responseTimeMs, SM2TimerLimit, o.timedOut)
         IN  UNION { RecordsAfter(recordAttempt(r, o.isCorrect, o.responseTimeMs,
                                                SM2TimerLimit, o.timedOut, iv), Tail(h))
                     : iv \in NextIntervals(r, q) }

\* The stores the first n problems can leave.
RECURSIVE PriorStores(_, _)
PriorStores(pattern, n) ==
    IF n = 0 THEN {EmptyStore}
    ELSE LET p == PriorProblems[n]
             h == PriorHistory(pattern, n)
         IN  IF h = <<>> THEN PriorStores(pattern, n - 1)
             ELSE { StorePut(st, p.key, r) :
                      st \in PriorStores(pattern, n - 1),
                      r \in RecordsAfter(createProblemRecord(p.key, p.operation,
                                                             p.a, p.b, p.answer), h) }

SessionEnabledChoices == {{"mul"}, {"add", "mul"}}

\* The answers of the session: correct and fast, or wrong.
SessionOutcomes == {o \in Outcomes : ~o.timedOut}

\* The answer given after n answers of the session.  A flow session starts with
\* a correct answer, a drill session with a wrong one, and the answers
\* alternate: both outcomes occur in every session of two answers, and the
\* records of the earlier sessions hold the other orders.
TurnOutcomes(mode, n) ==
    {o \in SessionOutcomes : o.isCorrect = ((n % 2 = 0) = (mode = "flow"))}

\* init(): loadAll, then buildProblemPool.
SessionInit ==
    /\ rec = TestRecord
    /\ call = NoCall
    /\ prev = NoCall
    /\ now = 24
    /\ tz \in {z \in TimeZones : ~z.dst /\ z.off = 0}
    /\ settings \in {[enabled |-> e, ranges |-> ModelRanges] : e \in SessionEnabledChoices}
    /\ store \in UNION {PriorStores(pattern, Len(PriorProblems)) : pattern \in PriorPatterns}
    /\ currentPool \in buildProblemPool(settings)
    /\ sessionAttempts = <<>>
    /\ selection = NoSelection
    /\ DriverIdle
    /\ SyncIdle
    /\ LogEmpty

\* The drill pool after the store's object under key was changed in place to r.
DrillPoolAfterUpdate(pool, key, r) ==
    [i \in 1..Len(pool) |-> IF pool[i].key = key THEN r ELSE pool[i]]

\* processAnswer on problem with the answer o: recordAttempt on its record,
\* which the pool and the drill pool hold too, and the attempt appended.
Answered(problem, o) ==
    LET old == RecordFor(problem)
        q == gradeResponse(o.isCorrect, o.responseTimeMs, SM2TimerLimit, o.timedOut)
    IN  \E iv \in NextIntervals(old, q) :
          LET new == recordAttempt(old, o.isCorrect, o.responseTimeMs,
                                   SM2TimerLimit, o.timedOut, iv)
          IN  /\ store' = StorePut(store, problem.key, new)
              /\ currentPool' =
                   IF problem.key \in DOMAIN store
                   THEN PoolAfterUpdate(currentPool, problem.key, new)
                   ELSE currentPool
              /\ drillPool' = DrillPoolAfterUpdate(drillPool, problem.key, new)
              /\ sessionAttempts' = Append(sessionAttempts, Attempt(problem, o))

SessionUnchanged ==
    UNCHANGED <<sm2Vars, clockVars, settings, selection,
                state, pausedState, currentProblem, answerBuffer, timers,
                sessionTimerInterval, problemAge, sessionClock, resumeArmed,
                turn, grades, syncVars, logVars>>

\* One turn of a flow session: nextProblem, processAnswer.
FlowTurn ==
    /\ sessionMode = "flow"
    /\ Len(sessionAttempts) < MaxFlowSession
    /\ \E phase \in Phases : \E problem \in selectNextProblem(sessionAttempts, phase) :
          /\ problem # NullProblem
          /\ \E o \in TurnOutcomes(sessionMode, Len(sessionAttempts)) :
                Answered(problem, o)
    /\ UNCHANGED sessionMode
    /\ SessionUnchanged

\* The drill button of the home screen: startDrill, up to nextProblem.
StartDrill ==
    /\ sessionMode = "flow"
    /\ sessionAttempts = <<>>
    /\ drillPool = <<>>
    /\ drillPool' \in getDrillProblems(settings, store)
    /\ sessionMode' = IF Len(drillPool') = 0 THEN sessionMode ELSE "drill"
    /\ sessionAttempts' = <<>>
    /\ UNCHANGED <<store, currentPool>>
    /\ SessionUnchanged

\* One turn of a drill session: nextProblem, processAnswer.
DrillTurn ==
    /\ sessionMode = "drill"
    /\ Len(sessionAttempts) < MaxDrillSession
    /\ \E problem \in selectDrillProblem(drillPool, sessionAttempts) :
          /\ problem # NullProblem
          /\ \E o \in TurnOutcomes(sessionMode, Len(sessionAttempts)) :
                Answered(problem, o)
    /\ UNCHANGED sessionMode
    /\ SessionUnchanged

SessionNext == FlowTurn \/ StartDrill \/ DrillTurn \/ AdvanceDay

SpecSession == SessionInit /\ [][SessionNext]_vars

----------------------------------------------------------------------------
(* SpecPriority: calculatePriority on a record never seen and on a mastered  *)
(* record that is due tomorrow, against one session history                  *)

\* A record never attempted, of ease e.
NeverSeen(e) == [TestRecord EXCEPT !.easeFactor = e]

MasteredKey == <<"mul", 7, 7>>

\* totalAttempts 10, totalCorrect 10, easeFactor 3.0, due tomorrow; totalTimeMs
\* is ms.
Mastered(ms) ==
    [createProblemRecord(MasteredKey, "mul", 7, 7, 49) EXCEPT
        !.easeFactor = MAX_EASE, !.interval = 6, !.repetitions = 2,
        !.nextReviewDate = today + 1,
        !.totalAttempts = 10, !.totalCorrect = 10, !.totalTimeMs = ms,
        !.lastResponseTimeMs = ms \div 10, !.streak = 10, !.bestStreak = 10]

\* Ten answers of 1 s each, and ten of 8 s each.
MasteredTimes == {10000, 80000}

\* Session histories of other problems, up to MaxSession attempts.
OtherProblems == {Problem("mul", 2, 2, 4), Problem("add", 10, 10, 20)}

OtherAttempts == {Attempt(p, o) : p \in OtherProblems, o \in Outcomes}

Histories == UNION {[1..n -> OtherAttempts] : n \in 0..MaxSession}

PriorityInit ==
    /\ rec \in {NeverSeen(e) : e \in MIN_EASE..MAX_EASE}
    /\ call = NoCall
    /\ prev = NoCall
    /\ now \in {24, 48}
    /\ tz \in {z \in TimeZones : ~z.dst /\ z.off = 0}
    /\ settings = [enabled |-> {}, ranges |-> ModelRanges]
    /\ store \in {StorePut(EmptyStore, MasteredKey, Mastered(ms)) : ms \in MasteredTimes}
    /\ currentPool = <<>>
    /\ sessionAttempts \in Histories
    /\ selection = NoSelection
    /\ DriverIdle
    /\ SyncIdle
    /\ LogEmpty

\* calculatePriority of both records against the session's attempts.
ScoreBoth ==
    /\ call = NoCall
    /\ call' = [op |-> "calculatePriority", seq |-> 1,
                neverSeen |-> calculatePriority(rec, sessionAttempts,
                                                Len(sessionAttempts)),
                mastered |-> calculatePriority(store[MasteredKey], sessionAttempts,
                                               Len(sessionAttempts))]
    /\ prev' = call
    /\ UNCHANGED <<rec, now, tz, engineVars, driverVars, syncVars, logVars>>

PriorityNext == ScoreBoth

SpecPriority == PriorityInit /\ [][PriorityNext]_vars

----------------------------------------------------------------------------
(* SpecDrillPool: getDrillProblems over the records of earlier sessions, for *)
(* every choice of enabled operations                                        *)

DrillPoolInit ==
    /\ rec = TestRecord
    /\ call = NoCall
    /\ prev = NoCall
    /\ now = 24
    /\ tz \in {z \in TimeZones : ~z.dst /\ z.off = 0}
    /\ settings \in {[enabled |-> e, ranges |-> ModelRanges] : e \in SUBSET Operations}
    /\ store \in UNION {PriorStores(pattern, Len(PriorProblems)) : pattern \in PriorPatterns}
    /\ currentPool \in buildProblemPool(settings)
    /\ sessionAttempts = <<>>
    /\ selection = NoSelection
    /\ DriverIdle
    /\ SyncIdle
    /\ LogEmpty

\* getDrillProblems(), as startDrill calls it.
GetDrillProblems ==
    /\ call = NoCall
    /\ \E pool \in getDrillProblems(settings, store) :
          call' = [op |-> "getDrillProblems", seq |-> 1, result |-> pool]
    /\ prev' = call
    /\ UNCHANGED <<rec, now, tz, engineVars, driverVars, syncVars, logVars>>

DrillPoolNext == GetDrillProblems

SpecDrillPool == DrillPoolInit /\ [][DrillPoolNext]_vars

----------------------------------------------------------------------------
(* SpecGen: generateRandomProblem, draw by draw, under every range with      *)
(* limits from 1 to MaxOperand and minA <= maxA, minB <= maxB                *)

\* The ranges readSettings can store: positive limits.
GenRanges ==
    {r \in [minA : 1..MaxOperand, maxA : 1..MaxOperand,
            minB : 1..MaxOperand, maxB : 1..MaxOperand] :
        r.minA <= r.maxA /\ r.minB <= r.maxB}

\* The problem the switch builds from the draws a and b, and for div from the
\* draws divisor and quotient; sub with unequal operands.
GeneratedAsDrawn(operation, a, b, divisor, quotient) ==
    IF operation = "add" THEN Problem("add", a, b, a + b)
    ELSE IF operation = "sub" THEN Problem("sub", a, b, a - b)
    ELSE IF operation = "mul" THEN Problem("mul", a, b, a * b)
    ELSE Problem("div", divisor * quotient, divisor, quotient)

Generated(operation, a, b, divisor, quotient) ==
    IF operation = "add" THEN Problem("add", a, b, a + b)
    ELSE IF operation = "sub"
         THEN Problem("sub", Max(a, b), Min(a, b), Max(a, b) - Min(a, b))
    ELSE IF operation = "mul" THEN Problem("mul", a, b, a * b)
    ELSE Problem("div", divisor * quotient, divisor, quotient)

\* randInt(min, max): Math.floor(Math.random() * (max - min + 1)) + min
randInt(min, max) == min..max

\* A call of generateRandomProblem is running: it is about to draw.
Drawing == call.op = "generateRandomProblem" /\ call.pc = "draw"

\* The call has returned a problem.
Returned == call.op = "generateRandomProblem" /\ call.pc = "returned"

GenInit ==
    /\ rec = TestRecord
    /\ call = NoCall
    /\ prev = NoCall
    /\ now = 24
    /\ tz \in {z \in TimeZones : ~z.dst /\ z.off = 0}
    /\ settings \in {[enabled |-> {}, ranges |-> [op \in Operations |-> r]] :
                        r \in GenRanges}
    /\ store = EmptyStore
    /\ currentPool = <<>>
    /\ sessionAttempts = <<>>
    /\ selection = NoSelection
    /\ DriverIdle
    /\ SyncIdle
    /\ LogEmpty

\* generateRandomProblem(operation) is called.
GenCall ==
    /\ ~Drawing
    /\ \E operation \in Operations :
          call' = [op |-> "generateRandomProblem", seq |-> 1, operation |-> operation,
                   pc |-> "draw", depth |-> 0, a |-> 0, b |-> 0,
                   result |-> NullProblem]
    /\ prev' = call
    /\ UNCHANGED <<rec, now, tz, engineVars, driverVars, syncVars, logVars>>

\* The draws, and the return of the switch.
GenReturn ==
    /\ Drawing
    /\ LET range == settings.ranges[call.operation]
       IN  \E a \in randInt(range.minA, range.maxA), b \in randInt(range.minB, range.maxB),
              divisor \in randInt(range.minB, range.maxB),
              quotient \in randInt(range.minA, range.maxA) :
              /\ call.operation = "sub" => a # b
              /\ call.operation # "div" => divisor = b /\ quotient = a
              /\ call' = [call EXCEPT !.pc = "returned", !.a = quotient, !.b = divisor,
                                      !.result = Generated(call.operation, a, b,
                                                           divisor, quotient)]
    /\ prev' = call
    /\ UNCHANGED <<rec, now, tz, engineVars, driverVars, syncVars, logVars>>

\* sub drew equal operands: return generateRandomProblem('sub'), one call
\* deeper.  The depth is counted up to MaxGenDepth.
GenAgain ==
    /\ Drawing
    /\ call.operation = "sub"
    /\ LET range == settings.ranges[call.operation]
       IN  \E a \in randInt(range.minA, range.maxA), b \in randInt(range.minB, range.maxB) :
              a = b
    /\ call' = [call EXCEPT !.depth = Min(@ + 1, MaxGenDepth)]
    /\ prev' = call
    /\ UNCHANGED <<rec, now, tz, engineVars, driverVars, syncVars, logVars>>

GenNext == GenCall \/ GenReturn \/ GenAgain

\* Math.random is fair: draws that can come do come, so a call that can
\* return on some draw, again and again, does return.
SpecGen ==
    GenInit /\ [][GenNext]_vars /\ WF_vars(GenNext) /\ SF_vars(GenReturn)

----------------------------------------------------------------------------
(* SpecKey: canonicalizeProblemKey as the string it builds *)

\* String(n) of a template literal, for an integer n: its decimal digits, with
\* a minus sign before them when n < 0.  A string is a sequence of characters.
RECURSIVE DecimalDigits(_)
DecimalDigits(n) ==
    LET digit == <<"0", "1", "2", "3", "4", "5", "6", "7", "8", "9">>
    IN  IF n < 10 THEN <<digit[n + 1]>>
        ELSE DecimalDigits(n \div 10) \o <<digit[(n % 10) + 1]>>

NumberToString(n) == IF n < 0 THEN <<"-">> \o DecimalDigits(-n) ELSE DecimalDigits(n)

\* The characters of an operation's name.
OperationChars(operation) ==
    [add |-> <<"a", "d", "d">>, sub |-> <<"s", "u", "b">>,
     mul |-> <<"m", "u", "l">>, div |-> <<"d", "i", "v">>][operation]

\* `${operation}:${a}x${b}` for every operation: no Math.min and Math.max.
KeyStringAsGiven(operation, a, b) ==
    OperationChars(operation) \o <<":">> \o NumberToString(a) \o <<"x">> \o NumberToString(b)

\* The string canonicalizeProblemKey(operation, a, b) returns.
KeyString(operation, a, b) ==
    IF operation \in {"add", "mul"}
    THEN OperationChars(operation) \o <<":">> \o NumberToString(Min(a, b))
            \o <<"x">> \o NumberToString(Max(a, b))
    ELSE OperationChars(operation) \o <<":">> \o NumberToString(a)
            \o <<"x">> \o NumberToString(b)

\* The operands tried: a negative one, 0, and the numbers of one digit and of
\* two up to MaxKeyOperand.
KeyOperands == (-1)..MaxKeyOperand

KeyInit ==
    /\ rec = TestRecord
    /\ call = NoCall
    /\ prev = NoCall
    /\ now = 24
    /\ tz \in {z \in TimeZones : ~z.dst /\ z.off = 0}
    /\ EngineIdle
    /\ DriverIdle
    /\ SyncIdle
    /\ LogEmpty

\* canonicalizeProblemKey(operation, a, b) and, for the same operation, the
\* call with the operands exchanged.
Canonicalize ==
    \E operation \in Operations, a \in KeyOperands, b \in KeyOperands :
        /\ call = NoCall
        /\ call' = [op |-> "canonicalizeProblemKey", seq |-> 1,
                    operation |-> operation, a |-> a, b |-> b,
                    key |-> KeyString(operation, a, b),
                    exchanged |-> KeyString(operation, b, a)]
        /\ prev' = call
        /\ UNCHANGED <<rec, now, tz, engineVars, driverVars, syncVars, logVars>>

KeyNext == Canonicalize

SpecKey == KeyInit /\ [][KeyNext]_vars

----------------------------------------------------------------------------
(* SpecMerge: syncOnLoad.  The records of the browser and the records of    *)
(* the cloud, each over some of MergeKeys; the pull succeeds and the cloud   *)
(* data is merged into the local data and persisted, or it fails and the     *)
(* local data stays.  XP, personal bests, the session list and the attempt   *)
(* log are not kept.                                                         *)

MergeKeys == {<<"add", 1, 2>>, <<"mul", 2, 3>>}

\* The records a key can have after up to MaxMergeAttempts attempts, as far as
\* their counters go.
MergeRecords(key) ==
    UNION { { [createProblemRecord(key, key[1], key[2], key[3],
                    IF key[1] = "add" THEN key[2] + key[3] ELSE key[2] * key[3])
                 EXCEPT !.totalAttempts = n, !.totalCorrect = c,
                        !.streak = c, !.bestStreak = c]
              : c \in 0..n } : n \in 0..MaxMergeAttempts }

\* problemRecords objects: some of the keys, each with a record of that key.
RecordStores ==
    UNION { { f \in [K -> UNION {MergeRecords(k) : k \in MergeKeys}] :
                \A k \in K : f[k].key = k } : K \in SUBSET MergeKeys }

\* cloudData.profile: null, a profile without settings, or one with settings.
CloudProfiles ==
    { [isNull |-> TRUE, settings |-> [enabled |-> {}, ranges |-> ModelRanges]],
      [isNull |-> FALSE, settings |-> [enabled |-> {}, ranges |-> ModelRanges]],
      [isNull |-> FALSE, settings |-> [enabled |-> {"add", "mul"}, ranges |-> ModelRanges]] }

\* The problem-record loop with >= for >: the cloud record wins a tie.
mergeProblemRecordsCloudOnTie(localRecords, cloudRecords) ==
    [ key \in DOMAIN localRecords \cup DOMAIN cloudRecords |->
        IF key \notin DOMAIN localRecords THEN cloudRecords[key]
        ELSE IF key \in DOMAIN cloudRecords
                /\ cloudRecords[key].totalAttempts >= localRecords[key].totalAttempts
             THEN cloudRecords[key]
        ELSE localRecords[key] ]

\* for (const [key, cloudRec] of Object.entries(cloudData.problemRecords)):
\* a key the local data lacks takes the cloud record, a key of both takes the
\* cloud record when it has more attempts; every other key is left alone.
mergeProblemRecords(localRecords, cloudRecords) ==
    [ key \in DOMAIN localRecords \cup DOMAIN cloudRecords |->
        IF key \notin DOMAIN localRecords THEN cloudRecords[key]
        ELSE IF key \in DOMAIN cloudRecords
                /\ cloudRecords[key].totalAttempts > localRecords[key].totalAttempts
             THEN cloudRecords[key]
        ELSE localRecords[key] ]

\* Settings: the cloud's when the cloud profile has any (enabled operations
\* stand for the keys of the settings object).
mergeSettings(localSettings, profile) ==
    IF ~profile.isNull /\ profile.settings.enabled # {} THEN profile.settings
    ELSE localSettings

MergeInit ==
    /\ rec = TestRecord
    /\ call = NoCall
    /\ prev = NoCall
    /\ now = 24
    /\ tz \in {z \in TimeZones : ~z.dst /\ z.off = 0}
    /\ settings = [enabled |-> {"mul"}, ranges |-> ModelRanges]
    /\ store \in RecordStores
    /\ currentPool = <<>>
    /\ sessionAttempts = <<>>
    /\ selection = NoSelection
    /\ DriverIdle
    /\ SyncIdle
    /\ LogEmpty

\* An entry of data.sessions or data.attemptLog: its id, and its startTime or
\* timestamp as a number; id NoId is an entry without id.
LogEntry(id, time) == [id |-> id, time |-> time]

NoId == 0

LogIds(log) == {log[i].id : i \in 1..Len(log)}

\* array.sort((a, b) => new Date(a.time) - new Date(b.time)): stable, ascending
SortByTime(log) ==
    LET Place(i) == Cardinality({j \in 1..Len(log) : log[j].time < log[i].time})
                    + Cardinality({j \in 1..i : log[j].time = log[i].time})
    IN  [k \in 1..Len(log) |-> log[CHOOSE i \in 1..Len(log) : Place(i) = k]]

\* array.slice(-limit) when the array is longer than limit
KeepLatest(log, limit) ==
    IF Len(log) > limit THEN SubSeq(log, Len(log) - limit + 1, Len(log)) ELSE log

\* The sessions or the attempts of mergeCloudIntoLocal: the cloud entries
\* with an id that the local ids, as they were before the loop, do not hold
\* are pushed; the array is sorted and cut to its limit.
mergeLog(localLog, cloudLog, limit) ==
    LET localIds == LogIds(localLog)
        IsNew(c) == c.id # NoId /\ c.id \notin localIds
    IN  KeepLatest(SortByTime(localLog \o SelectSeq(cloudLog, IsNew)), limit)

\* mergeCloudIntoLocal(loadAll(), cloudData) and persist(), for cloud data
\* drawn from the sets given.
MergeCloudOf(recordStores, profiles, logs) ==
    \E cloudRecords \in recordStores, profile \in profiles, cloudLog \in logs :
        /\ call = NoCall
        /\ store' = mergeProblemRecords(store, cloudRecords)
        /\ settings' = mergeSettings(settings, profile)
        /\ sessions' = mergeLog(sessions, cloudLog, MAX_SESSIONS)
        /\ attemptLog' = mergeLog(attemptLog, cloudLog, MAX_ATTEMPTS)
        /\ call' = [op |-> "mergeCloudIntoLocal", seq |-> 1,
                    localRecords |-> store, cloudRecords |-> cloudRecords,
                    profile |-> profile, localSessions |-> sessions,
                    localAttempts |-> attemptLog, cloudSessions |-> cloudLog,
                    cloudAttempts |-> cloudLog]
        /\ prev' = call
        /\ UNCHANGED <<rec, now, tz, currentPool, sessionAttempts, selection, driverVars,
                       syncVars>>

\* syncOnLoad with cloud data that holds no session and no attempt.
MergeCloud == MergeCloudOf(RecordStores, CloudProfiles, {<<>>})

\* syncOnLoad when pullFromCloud returns null: nothing is merged.
PullFailed ==
    /\ call = NoCall
    /\ call' = [op |-> "syncOnLoad", seq |-> 1, merged |-> FALSE]
    /\ prev' = call
    /\ UNCHANGED <<rec, now, tz, engineVars, driverVars, syncVars, logVars>>

MergeNext == MergeCloud \/ PullFailed

SpecMerge == MergeInit /\ [][MergeNext]_vars

----------------------------------------------------------------------------
(* SpecMergeLog: mergeCloudIntoLocal on the sessions and the attempt log *)

LogEntries == {LogEntry(id, time) : id \in 1..MaxLogId, time \in 1..MaxLogTime}

\* The arrays of up to n entries of E.
RECURSIVE LogsUpTo(_, _)
LogsUpTo(E, n) ==
    IF n = 0 THEN {<<>>}
    ELSE LogsUpTo(E, n - 1)
         \cup {Append(log, e) : log \in {l \in LogsUpTo(E, n - 1) : Len(l) = n - 1}, e \in E}

\* What storage holds: saveSession and logAttempt give every entry an id of
\* its own.
LocalLogs ==
    {log \in LogsUpTo(LogEntries, MaxLocalLog) : Cardinality(LogIds(log)) = Len(log)}

\* What cloudData can hold: any entries, with or without id.
CloudLogs == LogsUpTo(LogEntries \cup {LogEntry(NoId, 1)}, MaxCloudLog)

MergeLogInit ==
    /\ rec = TestRecord
    /\ call = NoCall
    /\ prev = NoCall
    /\ now = 24
    /\ tz \in {z \in TimeZones : ~z.dst /\ z.off = 0}
    /\ settings = [enabled |-> {"mul"}, ranges |-> ModelRanges]
    /\ store = EmptyStore
    /\ currentPool = <<>>
    /\ sessionAttempts = <<>>
    /\ selection = NoSelection
    /\ DriverIdle
    /\ SyncIdle
    /\ sessions \in LocalLogs
    /\ attemptLog \in LocalLogs

\* syncOnLoad with cloud data that holds sessions and attempts only.
MergeCloudLog ==
    MergeCloudOf({EmptyStore}, {p \in CloudProfiles : p.isNull}, CloudLogs)

MergeLogNext == MergeCloudLog \/ PullFailed

SpecMergeLog == MergeLogInit /\ [][MergeLogNext]_vars

----------------------------------------------------------------------------
(* SpecPhase: a sprint session over the records of earlier sessions, phase   *)
(* by phase.  The countdown is over: the state is WARMUP and the 200 ms      *)
(* interval is set.  Problems are selected for the phase the state spells    *)
(* and answered; the interval's callback moves the state on and ends the     *)
(* session.  The session is not paused, and every problem is answered        *)
(* before the feedback delay of the one before matters.                      *)

PhaseInit ==
    /\ rec = TestRecord
    /\ call = NoCall
    /\ prev = NoCall
    /\ now = 24
    /\ tz \in {z \in TimeZones : ~z.dst /\ z.off = 0}
    /\ settings \in {[enabled |-> e, ranges |-> ModelRanges] : e \in SessionEnabledChoices}
    /\ store \in UNION {PriorStores(pattern, Len(PriorProblems)) : pattern \in PriorPatterns}
    /\ currentPool \in buildProblemPool(settings)
    /\ sessionAttempts = <<>>
    /\ selection = NoSelection
    /\ state = "WARMUP"
    /\ pausedState = "null"
    /\ sessionMode = "sprint"
    /\ currentProblem = NullProblem
    /\ answerBuffer = <<>>
    /\ timers = <<>>
    /\ sessionTimerInterval = TRUE
    /\ problemAge = 0
    /\ sessionClock = 0
    /\ resumeArmed = FALSE
    /\ turn = 0
    /\ grades = <<>>
    /\ drillPool = <<>>
    /\ SyncIdle
    /\ LogEmpty

\* One turn: nextProblem with phase = state.toLowerCase(), processAnswer.
PhaseTurn ==
    /\ state \in {"WARMUP", "CORE", "CHALLENGE"}
    /\ Len(sessionAttempts) < MaxFlowSession
    /\ \E problem \in selectNextProblem(sessionAttempts, ToLowerCase(state)) :
          /\ problem # NullProblem
          /\ \E o \in SessionOutcomes :
                Answered(problem, o)
    /\ UNCHANGED sessionMode
    /\ SessionUnchanged

\* Time passes and the interval's callback runs: the phase transitions, and
\* endSession when no time remains.  The session is followed up to the
\* selection that is not answered.
PhaseTick ==
    /\ sessionTimerInterval
    /\ ~selection.open
    /\ \E c \in {sessionClock, Min(2, sessionClock + 1)} :
          Install(onInterval([Cur EXCEPT !.sessionClock = c]))
    /\ UNCHANGED <<sm2Vars, clockVars, settings, selection, drillPool, syncVars, attemptLog>>

\* nextProblem after the last answer the model follows: the problem is
\* selected and displayed, and not answered.
PhaseSelect ==
    /\ state \in {"WARMUP", "CORE", "CHALLENGE"}
    /\ Len(sessionAttempts) >= MaxFlowSession
    /\ ~selection.open
    /\ \E problem \in selectNextProblem(sessionAttempts, ToLowerCase(state)) :
          selection' = [phase |-> ToLowerCase(state), problem |-> problem, open |-> TRUE]
    /\ UNCHANGED <<sm2Vars, clockVars, settings, store, currentPool, sessionAttempts,
                   driverVars, syncVars, logVars>>

PhaseNext == PhaseTurn \/ PhaseTick \/ PhaseSelect

SpecPhase == PhaseInit /\ [][PhaseNext]_vars

----------------------------------------------------------------------------
(* SpecScore: calculatePriority on one record through a session.  The        *)
(* record comes from a session of day 1; days pass; then a session of up to  *)
(* MaxScoreSession answers, to the record's problem or to another one.       *)
(* After every answer, and when a day begins, the record is scored against   *)
(* the session's attempts, as the selection of the next problem scores it.   *)

OtherProblem == Problem("add", 10, 10, 20)

\* The records the earlier session can leave of the problem.
ScoreRecords ==
    UNION { RecordsAfter(TestRecord, HistoryKinds[i]) :
              i \in {j \in 1..Len(HistoryKinds) : Len(HistoryKinds[j]) <= MaxPrior} }

\* A calculatePriority(r, attempts, attempts.length) call: what it returns,
\* score as it is before the return statement, and the same for the record
\* against a session without attempts.
ScoreCall(r, attempts) ==
    [op |-> "calculatePriority", seq |-> 1,
     score |-> calculatePriority(r, attempts, Len(attempts)),
     raw |-> RawPriority(r, attempts, Len(attempts)),
     idle |-> RawPriority(r, <<>>, 0)]

ScoreInit ==
    /\ call = NoCall
    /\ prev = NoCall
    /\ now = 24
    /\ tz \in {z \in TimeZones : ~z.dst /\ z.off = 0}
    /\ rec \in ScoreRecords
    /\ EngineIdle
    /\ DriverIdle
    /\ SyncIdle
    /\ LogEmpty

\* A day passes before the session; the app scores the record when it opens.
ScoreNextDay ==
    /\ sessionAttempts = <<>>
    /\ IsoDate(now + 24) <= MaxScoreDay
    /\ now' = now + 24
    /\ UNCHANGED <<rec, prev, tz, engineVars, driverVars, syncVars, logVars>>
    /\ call' = ScoreCall(rec, sessionAttempts)'

\* The record's problem is answered: recordAttempt, the attempt appended, and
\* the record scored for the next selection.
ScoreOwn ==
    /\ Len(sessionAttempts) < MaxScoreSession
    /\ rec.totalAttempts < MaxPrior + MaxFlowSession
    /\ \E o \in SessionOutcomes :
        LET q == gradeResponse(o.isCorrect, o.responseTimeMs, SM2TimerLimit, o.timedOut)
        IN  \E iv \in NextIntervals(rec, q) :
              /\ rec' = recordAttempt(rec, o.isCorrect, o.responseTimeMs,
                                      SM2TimerLimit, o.timedOut, iv)
              /\ sessionAttempts' = Append(sessionAttempts, Attempt(ProblemOf(rec), o))
              /\ call' = ScoreCall(rec', sessionAttempts')
    /\ UNCHANGED <<prev, now, tz, settings, store, currentPool, selection, driverVars, syncVars, logVars>>

\* Another problem is answered, and the record scored for the next selection.
ScoreOther ==
    /\ Len(sessionAttempts) < MaxScoreSession
    /\ \E o \in {x \in SessionOutcomes : x.isCorrect} :
          sessionAttempts' = Append(sessionAttempts, Attempt(OtherProblem, o))
    /\ call' = ScoreCall(rec, sessionAttempts')
    /\ UNCHANGED <<rec, prev, now, tz, settings, store, currentPool, selection, driverVars, syncVars, logVars>>

ScoreNext == ScoreNextDay \/ ScoreOwn \/ ScoreOther

SpecScore == ScoreInit /\ [][ScoreNext]_vars

----------------------------------------------------------------------------
(* SpecFilter: the phase filter of selectNextProblem.  The pool holds the    *)
(* mul problems 2 x 2 to 2 x (MaxCandidates + 1); each was never answered or *)
(* has a record from earlier sessions; selectNextProblem is called for       *)
(* every phase value the driver can pass and for every state of the records. *)

FilterSettings ==
    [enabled |-> {"mul"},
     ranges |-> [ModelRanges EXCEPT
                   !.mul = [minA |-> 2, maxA |-> 2, minB |-> 2, maxB |-> MaxCandidates + 1]]]

\* The answers a problem got before: none; two fast correct ones (ease 2.7);
\* a wrong one (ease 1.96); two slow correct ones (ease 2.22).
FilterKinds == << <<>>, <<"c", "c">>, <<"w">>, <<"s", "s">> >>

\* The store in which the i-th problem has the history FilterKinds[f[i]].
FilterStore(f) ==
    [ key \in {<<"mul", 2, i + 1>> : i \in {j \in DOMAIN f : FilterKinds[f[j]] # <<>>}} |->
        CHOOSE r \in RecordsAfter(createProblemRecord(key, "mul", 2, key[3], 2 * key[3]),
                                  FilterKinds[f[key[3] - 1]]) : TRUE ]

\* state.toLowerCase() for the states in which nextProblem selects.
FilterPhases == Phases \cup {"starting", "paused"}

FilterInit ==
    /\ rec = TestRecord
    /\ call = NoCall
    /\ prev = NoCall
    /\ now = 24
    /\ tz \in {z \in TimeZones : ~z.dst /\ z.off = 0}
    /\ settings = FilterSettings
    /\ store \in {FilterStore(f) : f \in [1..MaxCandidates -> 1..Len(FilterKinds)]}
    /\ currentPool \in buildProblemPool(settings)
    /\ sessionAttempts = <<>>
    /\ selection = NoSelection
    /\ DriverIdle
    /\ SyncIdle
    /\ LogEmpty

\* selectNextProblem(sessionAttempts, phase), up to the phase filter.
FilterPhase ==
    \E phase \in FilterPhases :
        /\ call = NoCall
        /\ call' = [op |-> "selectNextProblem", seq |-> 1, phase |-> phase,
                    candidates |-> Candidates(currentPool, settings, store),
                    filtered |-> PhaseFilter(Candidates(currentPool, settings, store), phase)]
        /\ prev' = call
        /\ UNCHANGED <<rec, now, tz, engineVars, driverVars, syncVars, logVars>>

FilterNext == FilterPhase

SpecFilter == FilterInit /\ [][FilterNext]_vars

----------------------------------------------------------------------------
(* SpecTop: selectNextProblem over a pool with more than ten candidates *)

\* The addition 10 + 10 and the products 2 x 2 .. 2 x MaxTopPool.
TopSettings ==
    [enabled |-> {"add", "mul"},
     ranges |-> [ModelRanges EXCEPT
                   !.mul = [minA |-> 2, maxA |-> 2, minB |-> 2, maxB |-> MaxTopPool]]]

\* The store in which 2 x 2 has the history FilterKinds[f] and 2 x MaxTopPool
\* the history FilterKinds[g]; the other problems were never attempted.
TopStore(f, g) ==
    [ key \in {<<"mul", 2, i>> : i \in {j \in {2, MaxTopPool} :
                   FilterKinds[IF j = 2 THEN f ELSE g] # <<>>}} |->
        CHOOSE r \in RecordsAfter(createProblemRecord(key, "mul", 2, key[3], 2 * key[3]),
                                  FilterKinds[IF key[3] = 2 THEN f ELSE g]) : TRUE ]

TopInit ==
    /\ rec = TestRecord
    /\ call = NoCall
    /\ prev = NoCall
    /\ now = 24
    /\ tz \in {z \in TimeZones : ~z.dst /\ z.off = 0}
    /\ settings = TopSettings
    /\ store \in {TopStore(f, g) : f, g \in 1..Len(FilterKinds)}
    /\ currentPool \in buildProblemPool(settings)
    /\ sessionAttempts = <<>>
    /\ selection = NoSelection
    /\ DriverIdle
    /\ SyncIdle
    /\ LogEmpty

\* nextProblem and processAnswer: one problem selected and answered.
TopTurn ==
    /\ ~selection.open
    /\ Len(sessionAttempts) < MaxTopSession
    /\ \E phase \in Phases : \E problem \in selectNextProblem(sessionAttempts, phase) :
          \E o \in SessionOutcomes : Answered(problem, o)
    /\ UNCHANGED sessionMode
    /\ SessionUnchanged

\* nextProblem after the last answer followed: the problem selectNextProblem
\* returned, not answered.
TopSelect ==
    /\ ~selection.open
    /\ Len(sessionAttempts) >= MaxTopSession
    /\ \E phase \in Phases : \E problem \in selectNextProblem(sessionAttempts, phase) :
          selection' = [phase |-> phase, problem |-> problem, open |-> TRUE]
    /\ UNCHANGED <<sm2Vars, clockVars, settings, store, currentPool, sessionAttempts,
                   driverVars, syncVars, logVars>>

TopNext == TopTurn \/ TopSelect

SpecTop == TopInit /\ [][TopNext]_vars

----------------------------------------------------------------------------
(* SpecPause: a sprint session with its phases, paused and resumed *)

\* The countdown of startSession has just ended over an empty store.
PauseInit ==
    /\ rec = TestRecord
    /\ call = NoCall
    /\ prev = NoCall
    /\ now = 24
    /\ tz \in {z \in TimeZones : ~z.dst /\ z.off = 0}
    /\ settings \in {[enabled |-> e, ranges |-> ModelRanges] : e \in SessionEnabledChoices}
    /\ store = EmptyStore
    /\ currentPool \in buildProblemPool(settings)
    /\ sessionAttempts = <<>>
    /\ selection = NoSelection
    /\ state = "WARMUP"
    /\ pausedState = "null"
    /\ sessionMode = "sprint"
    /\ currentProblem = NullProblem
    /\ answerBuffer = <<>>
    /\ timers = <<>>
    /\ sessionTimerInterval = TRUE
    /\ problemAge = 0
    /\ sessionClock = 0
    /\ resumeArmed = FALSE
    /\ turn = 0
    /\ grades = <<>>
    /\ drillPool = <<>>
    /\ SyncIdle
    /\ LogEmpty

\* Escape, the pause button, or the page hidden, between two problems.
PhasePause ==
    /\ Running(state)
    /\ Install(pauseSession(Cur))
    /\ DriverUnchanged

\* The resume button of the pause overlay; the per-problem timer it restarts
\* is not followed, as the problems of this specification are answered in the
\* step that selects them.
PhaseResume ==
    /\ resumeArmed
    /\ \E d \in onResume(Cur) : Install([d EXCEPT !.timers = <<>>])
    /\ DriverUnchanged

PauseNext == PhaseTurn \/ PhaseTick \/ PhasePause \/ PhaseResume

SpecPause == PauseInit /\ [][PauseNext]_vars

----------------------------------------------------------------------------
(* SpecSync: the sync queue.  Firebase is initialised and a user is signed   *)
(* in, so that isOffline() is false and flush goes on to the batch.  An item *)
(* of the queue is an object: obj names the object, id the enqueue call that *)
(* made it, bad says that preparing its write throws.                        *)

QueueItem(id, bad, obj) == [id |-> id, retries |-> 0, bad |-> bad, obj |-> obj]

\* JSON.stringify of an item: its fields, without the identity of the object.
Stringify(item) == [id |-> item.id, retries |-> item.retries, bad |-> item.bad]

\* localStorage.setItem(QUEUE_KEY, JSON.stringify(syncQueue))
persistQueue(queue) == MapSeq(queue, Stringify)

\* JSON.parse(raw): every entry is an object of its own; base is above the
\* names of the objects that exist.
loadQueue(raw, base) ==
    [i \in 1..Len(raw) |->
        [id |-> raw[i].id, retries |-> raw[i].retries, bad |-> raw[i].bad,
         obj |-> base + i]]

\* The objects of b \o q named by the order of their first occurrence.
Renamed(b, q) ==
    LET all == b \o q
        First(i) == CHOOSE j \in 1..i :
                      /\ all[j].obj = all[i].obj
                      /\ \A k \in 1..(j - 1) : all[k].obj # all[i].obj
        Name(i) == Cardinality({First(k) : k \in 1..First(i)})
    IN  [i \in 1..Len(all) |-> [all[i] EXCEPT !.obj = Name(i)]]

\* item.retries++ on the object the i-th entry of b refers to.
Retried(b, i) ==
    [k \in 1..Len(b) |->
        IF b[k].obj = b[i].obj THEN [b[k] EXCEPT !.retries = @ + 1] ELSE b[k]]

\* The loop over the batch in which the writes are prepared, from entry i:
\* the catch of an item whose preparation throws; f holds the entries pushed
\* to failed.
RECURSIVE PrepareFrom(_, _, _)
PrepareFrom(b, f, i) ==
    IF i > Len(b) THEN [batch |-> b, failed |-> f]
    ELSE IF b[i].bad /\ b[i].retries < maxRetries
         THEN PrepareFrom(Retried(b, i), Append(f, i), i + 1)
         ELSE PrepareFrom(b, f, i + 1)

\* The catch of the commit with maxRetries + 1 in place of maxRetries.
RECURSIVE RequeueOneMoreFrom(_, _, _)
RequeueOneMoreFrom(b, f, i) ==
    IF i > Len(b) THEN [batch |-> b, failed |-> f]
    ELSE IF b[i].retries < maxRetries + 1
         THEN RequeueOneMoreFrom(Retried(b, i), Append(f, i), i + 1)
         ELSE RequeueOneMoreFrom(b, f, i + 1)

\* The catch of the commit: every item of the batch with retries left is
\* pushed to failed.
RECURSIVE RequeueFrom(_, _, _)
RequeueFrom(b, f, i) ==
    IF i > Len(b) THEN [batch |-> b, failed |-> f]
    ELSE IF b[i].retries < maxRetries
         THEN RequeueFrom(Retried(b, i), Append(f, i), i + 1)
         ELSE RequeueFrom(b, f, i + 1)

\* batchCount: the writes put into the write batch.
BatchCount(b) == Cardinality({i \in 1..Len(b) : ~b[i].bad})

\* The sync state as one value, for the handlers that call flush.
SyncCur ==
    [syncQueue |-> syncQueue, storedQueue |-> storedQueue, syncing |-> syncing,
     flushTimer |-> flushTimer, retryTimers |-> retryTimers, batch |-> batch,
     failed |-> failed, sends |-> sends]

SyncInstall(s) ==
    /\ syncQueue' = SubSeq(Renamed(s.batch, s.syncQueue),
                           Len(s.batch) + 1, Len(s.batch) + Len(s.syncQueue))
    /\ batch' = SubSeq(Renamed(s.batch, s.syncQueue), 1, Len(s.batch))
    /\ storedQueue' = s.storedQueue
    /\ syncing' = s.syncing
    /\ flushTimer' = s.flushTimer
    /\ retryTimers' = s.retryTimers
    /\ failed' = s.failed
    /\ sends' = s.sends

\* flush from "Put failed items back" to its end.
flushEnd(s, b, f) ==
    LET back == [k \in 1..Len(f) |-> b[f[k]]]
        queue == back \o s.syncQueue
    IN  [s EXCEPT !.syncQueue = queue,
                  !.retryTimers = IF Len(f) > 0 THEN @ + 1 ELSE @,
                  !.storedQueue = persistQueue(queue),
                  !.syncing = FALSE,
                  !.batch = b,
                  !.failed = f,
                  !.flushTimer = IF Len(queue) > 0 THEN TRUE ELSE @]

\* flush up to the await of writeBatch.commit(), or to its end when no write
\* was prepared.
flush(s) ==
    IF s.syncing \/ Len(s.syncQueue) = 0 THEN s
    ELSE LET n == Min(Len(s.syncQueue), maxBatchSize)
             p == PrepareFrom(SubSeq(s.syncQueue, 1, n), <<>>, 1)
             s1 == [s EXCEPT !.syncQueue = SubSeq(@, n + 1, Len(@))]
         IN  IF BatchCount(p.batch) > 0
             THEN [s1 EXCEPT !.syncing = TRUE, !.batch = p.batch, !.failed = p.failed]
             ELSE flushEnd(s1, p.batch, p.failed)

\* enqueue(collection, data)
enqueue(s, id, bad) ==
    LET queue == Append(s.syncQueue,
                        QueueItem(id, bad, Len(s.batch) + Len(s.syncQueue) + 1))
    IN  [s EXCEPT !.syncQueue = queue, !.storedQueue = persistQueue(queue),
                  !.flushTimer = TRUE]

SyncInit ==
    /\ rec = TestRecord
    /\ call = NoCall
    /\ prev = NoCall
    /\ now = 24
    /\ tz \in {z \in TimeZones : ~z.dst /\ z.off = 0}
    /\ EngineIdle
    /\ DriverIdle
    /\ SyncIdle
    /\ LogEmpty

SyncUnchanged == UNCHANGED <<sm2Vars, clockVars, engineVars, driverVars, logVars>>

\* saveProblemRecord, logAttempt or saveSettings: one item is enqueued.
Enqueue ==
    /\ Len(sends) < MaxEnqueue
    /\ \E bad \in BOOLEAN :
          SyncInstall(enqueue([SyncCur EXCEPT !.sends = Append(@, 0)],
                              Len(sends) + 1, bad))
    /\ SyncUnchanged

\* saveSession: the session and the profile are enqueued, then flushNow().
SaveSession ==
    /\ Len(sends) + 2 <= MaxEnqueue
    /\ LET s1 == enqueue([SyncCur EXCEPT !.sends = @ \o <<0, 0>>],
                         Len(sends) + 1, FALSE)
           s2 == enqueue(s1, Len(sends) + 2, FALSE)
       IN  SyncInstall(flush([s2 EXCEPT !.flushTimer = FALSE]))
    /\ SyncUnchanged

\* The timer of debouncedFlush fires.
FireFlushTimer ==
    /\ flushTimer
    /\ SyncInstall(flush([SyncCur EXCEPT !.flushTimer = FALSE]))
    /\ SyncUnchanged

\* A retry timer fires.
FireRetryTimer ==
    /\ retryTimers > 0
    /\ SyncInstall(flush([SyncCur EXCEPT !.retryTimers = @ - 1]))
    /\ SyncUnchanged

\* The 'online' event: loadQueue(), then flush() when the queue is not empty.
Online ==
    /\ Len(storedQueue) + (IF syncing THEN Len(batch) ELSE 0) <= MaxQueue
    /\ SyncInstall(flush([SyncCur EXCEPT
                            !.syncQueue = loadQueue(storedQueue,
                                                    Len(batch) + Len(syncQueue))]))
    /\ SyncUnchanged

\* writeBatch.commit() resolves: the writes of the batch are in the cloud.
CommitResolved ==
    /\ syncing
    /\ \A i \in 1..Len(batch) : sends[batch[i].id] < MaxSends
    /\ LET Sent(id) == Cardinality({i \in 1..Len(batch) :
                                      batch[i].id = id /\ ~batch[i].bad})
           s1 == [SyncCur EXCEPT
                    !.sends = [id \in 1..Len(@) |-> @[id] + Sent(id)]]
       IN  SyncInstall(flushEnd(s1, batch, failed))
    /\ SyncUnchanged

\* writeBatch.commit() rejects: nothing is written.
CommitRejected ==
    /\ syncing
    /\ LET r == RequeueFrom(batch, failed, 1)
       IN  SyncInstall(flushEnd(SyncCur, r.batch, r.failed))
    /\ SyncUnchanged

SyncNext ==
    \/ Enqueue \/ SaveSession \/ FireFlushTimer \/ FireRetryTimer
    \/ Online \/ CommitResolved \/ CommitRejected

SpecSync == SyncInit /\ [][SyncNext]_vars

----------------------------------------------------------------------------
(* The claims *)

IsGrade == call.op = "gradeResponse"
IsUpdate == call.op \in {"recordAttempt", "updateSM2"}

\* C1: gradeResponse returns 0 whenever timedOut (even if correct), else 1
\* whenever not correct, else 5 for a ratio of at most 0.25, 4 for at most
\* 0.50 and 3 above; the result is in {0,1,3,4,5} and, for correct answers in
\* time, does not increase with the response time.
C1_GradeResponse ==
    IsGrade =>
        /\ call.timedOut => call.result = 0
        /\ ~call.timedOut /\ ~call.isCorrect => call.result = 1
        /\ ~call.timedOut /\ call.isCorrect =>
              call.result =
                IF 100 * call.responseTimeMs <= 25 * call.timerLimitMs THEN 5
                ELSE IF 100 * call.responseTimeMs <= 50 * call.timerLimitMs THEN 4
                ELSE 3
        /\ call.result \in {0, 1, 3, 4, 5}
        /\ ( /\ prev.op = "gradeResponse"
             /\ prev.isCorrect /\ ~prev.timedOut
             /\ call.isCorrect /\ ~call.timedOut
             /\ prev.timerLimitMs = call.timerLimitMs
             /\ prev.responseTimeMs <= call.responseTimeMs )
            => prev.result >= call.result

\* A correct answer that timed out, graded 0, after a correct fast one graded 5.
C1_Witness ==
    /\ IsGrade /\ call.timedOut /\ call.isCorrect /\ call.result = 0
    /\ prev.op = "gradeResponse" /\ prev.isCorrect /\ ~prev.timedOut
    /\ prev.result = 5

\* C2: easeFactor stays within [1.3, 3.0] under every sequence of updateSM2
\* and recordAttempt calls, from every starting ease in that range.
C2_EaseBounds == MIN_EASE <= rec.easeFactor /\ rec.easeFactor <= MAX_EASE

\* The adjustment left the range and the ease was clamped, at either end.
C2_Witness ==
    /\ IsUpdate
    /\ \/ /\ call.pre.easeFactor + EaseDelta(call.quality) < MIN_EASE
          /\ rec.easeFactor = MIN_EASE
          /\ prev = NoCall
       \/ /\ call.pre.easeFactor + EaseDelta(call.quality) > MAX_EASE
          /\ rec.easeFactor = MAX_EASE

\* C3: a pass (quality >= 3) sets the interval to 1 from repetitions 0, to 3
\* from repetitions 1, and to the old interval times the ease before this
\* call's adjustment, rounded, from repetitions >= 2; repetitions grows by
\* one.  The scenario record (2, 10 days, 2.5) answered correctly at ratio 0.1
\* ends with repetitions 3, interval 25, ease 2.6.
C3_IntervalGraduation ==
    /\ (IsUpdate /\ call.quality >= 3) =>
          /\ rec.repetitions = call.pre.repetitions + 1
          /\ call.pre.repetitions = 0 => rec.interval = 1
          /\ call.pre.repetitions = 1 => rec.interval = 3
          /\ call.pre.repetitions >= 2 =>
                LET p == call.pre.interval * call.pre.easeFactor
                IN  /\ 100 * rec.interval - p <= 50
                    /\ p - 100 * rec.interval <= 50
    /\ ( /\ call.op = "recordAttempt"
         /\ call.pre.repetitions = 2 /\ call.pre.interval = 10
         /\ call.pre.easeFactor = 250
         /\ call.isCorrect /\ ~call.timedOut
         /\ 10 * call.responseTimeMs = SM2TimerLimit )
        => rec.repetitions = 3 /\ rec.interval = 25 /\ rec.easeFactor = 260

\* The scenario has run.
C3_Witness ==
    /\ call.op = "recordAttempt"
    /\ call.pre = ScenarioRecord
    /\ call.isCorrect /\ ~call.timedOut /\ call.responseTimeMs = 1000
    /\ rec.interval = 25

\* C4: a failure (quality 0 or 1) leaves repetitions = 0 and interval = 0
\* whatever the record was; so repetitions = 0 whenever the most recent
\* grade was a failure.
C4_FailureReset ==
    (IsUpdate /\ call.quality < 3) => rec.repetitions = 0 /\ rec.interval = 0

\* A wrong answer in time (quality 1) on a record with passes behind it.
C4_Witness ==
    /\ IsUpdate /\ call.quality = 1
    /\ call.pre.repetitions >= 2 /\ call.pre.interval > 1
    /\ rec.repetitions = 0

\* C5: a record made by createProblemRecord and updated by recordAttempt
\* calls only has totalCorrect <= totalAttempts, interval >= 0,
\* streak <= bestStreak and bestStreak <= totalCorrect.
C5_RecordCounters ==
    /\ rec.totalCorrect <= rec.totalAttempts
    /\ rec.interval >= 0
    /\ rec.streak <= rec.bestStreak
    /\ rec.bestStreak <= rec.totalCorrect

\* A wrong answer, then a correct one, then a correct one that timed out.
C5_Witness ==
    /\ call.op = "recordAttempt" /\ call.isCorrect /\ call.timedOut
    /\ rec.totalAttempts = 3 /\ rec.totalCorrect = 2
    /\ rec.streak = 2 /\ rec.bestStreak = 2 /\ rec.repetitions = 0

\* C6: after every updateSM2 call nextReviewDate is the date exactly
\* record.interval days after the current date.
C6_NextReviewExact ==
    IsUpdate => rec.nextReviewDate = call.at + rec.interval

\* C7: each problem displayed is graded by exactly one processAnswer call,
\* made by submitAnswer or by handleTimeout, never by both and never twice:
\* one recordAttempt on its record, one attempt appended to sessionAttempts.
C7_GradedOncePerTurn ==
    /\ Len(grades) <= 1
    /\ Len(sessionAttempts) <= turn

\* The operations of the records in a sequence of candidates.
OpsOf(candidates) == {candidates[i].operation : i \in 1..Len(candidates)}

\* The session's last two attempts have the same operation.
LastTwoSame ==
    /\ Len(sessionAttempts) >= 2
    /\ sessionAttempts[Len(sessionAttempts) - 1].operation
         = sessionAttempts[Len(sessionAttempts)].operation

LastOp == sessionAttempts[Len(sessionAttempts)].operation

\* A problem as generateRandomProblem makes it: of the operation, inside the
\* operation's range, with its answer and its canonical key.
IsGenerated(p) ==
    /\ p \in generateRandomProblem(p.operation, settings)
    /\ p.key = canonicalizeProblemKey(p.operation, p.a, p.b)

C9_NeverThirdInARow ==
    \A phase \in Phases :
        ( /\ LastTwoSame
          /\ OpsOf(Candidates(currentPool, settings, store)) \ {LastOp} # {} )
        => \A p \in selectNextProblem(sessionAttempts, phase) :
              p.operation # LastOp

\* C9, amended: the same, when a record of another operation is among the
\* candidates that the phase filter leaves.
C9_NeverThirdInARowAfterPhaseFilter ==
    \A phase \in Phases :
        ( /\ LastTwoSame
          /\ OpsOf(PhaseFilter(Candidates(currentPool, settings, store), phase))
               \ {LastOp} # {} )
        => \A p \in selectNextProblem(sessionAttempts, phase) :
              p.operation # LastOp

\* After two attempts of one operation nextProblem selected a problem of
\* another one, in the challenge phase.
C9_Witness ==
    /\ selection.open
    /\ selection.phase = "challenge"
    /\ LastTwoSame
    /\ selection.problem # NullProblem
    /\ selection.problem.operation # LastOp
    /\ LastOp \in OpsOf(Candidates(currentPool, settings, store))

\* The records calculatePriority is called on: the candidates of a selection.
ScoredRecords ==
    {Candidates(currentPool, settings, store)[i] :
        i \in 1..Len(Candidates(currentPool, settings, store))}

\* C10: calculatePriority returns no value below 0, whatever the record and
\* the session's attempts; also for the problem of the preceding turn, where
\* the recency penalty is 100.
C10_PriorityNonNegative ==
    \A r \in ScoredRecords :
        calculatePriority(r, sessionAttempts, Len(sessionAttempts)) >= 0

\* The problem of the preceding turn is a candidate; its penalty is 100 and
\* the score before the floor is negative.
C10_Witness ==
    \E r \in ScoredRecords :
        /\ sessionAttempts # <<>>
        /\ sessionAttempts[Len(sessionAttempts)].problemKey = r.key
        /\ RecencyPenalty(r, sessionAttempts, Len(sessionAttempts)) = 100
        /\ RawPriority(r, sessionAttempts, Len(sessionAttempts)) < 0
        /\ calculatePriority(r, sessionAttempts, Len(sessionAttempts)) = 0

\* The scores of a sequence of scored records.
ScoresOf(scored) == {scored[i].score : i \in 1..Len(scored)}

\* C11: every score that selectNextProblem (after interleaving and balancing,
\* in every phase) and selectDrillProblem (after interleaving) hand to
\* weightedRandom is at least 0.
C11_WeightedScoresNonNegative ==
    /\ \A phase \in Phases :
          \A s \in ScoresOf(FinalScored(sessionAttempts, phase)) : s >= 0
    /\ \A s \in ScoresOf(DrillScored(drillPool, sessionAttempts)) : s >= 0

\* A flow session of four attempts, three of them of the last operation but
\* not the last two: a candidate of that operation with a positive priority
\* got both 0.5 and 0.6, a candidate of the other operation got 1.5, and the
\* problem of the last attempt has a negative score before the floor.
C11_Witness ==
    /\ sessionMode = "flow"
    /\ Len(sessionAttempts) >= 4
    /\ ~LastTwoSame
    /\ LET balanced == FinalScored(sessionAttempts, "core")
       IN  /\ \E i \in 1..Len(balanced) :
                LET p == calculatePriority(balanced[i].record, sessionAttempts,
                                           Len(sessionAttempts))
                IN  /\ balanced[i].record.operation = LastOp
                    /\ p > 0
                    /\ 10 * balanced[i].score = 3 * p
           /\ \E i \in 1..Len(balanced) :
                LET p == calculatePriority(balanced[i].record, sessionAttempts,
                                           Len(sessionAttempts))
                IN  /\ balanced[i].record.operation # LastOp
                    /\ 2 * balanced[i].score = 3 * p
           /\ \E i \in 1..Len(balanced) :
                /\ RawPriority(balanced[i].record, sessionAttempts,
                               Len(sessionAttempts)) < 0
                /\ balanced[i].score = 0

\* C12: against one session history in which neither problem appears, a record
\* with totalAttempts = 0 and no nextReviewDate, of any easeFactor from 1.3 to
\* 3.0, gets a strictly higher calculatePriority than a record with
\* totalAttempts = 10, totalCorrect = 10, easeFactor = 3.0 that is due tomorrow.
C12_NeverSeenAboveMastered ==
    call.op = "calculatePriority" => call.neverSeen > call.mastered

\* The closest pair: the never-seen record of ease 3.0 scores 70, the mastered
\* record with slow answers 60, after a session of other problems.
C12_Witness ==
    /\ call.op = "calculatePriority"
    /\ rec.easeFactor = MAX_EASE
    /\ rec.totalAttempts = 0
    /\ rec.nextReviewDate = NoDate
    /\ store[MasteredKey].nextReviewDate = today + 1
    /\ Len(sessionAttempts) = MaxSession
    /\ call.neverSeen = 70 * ScoreDen
    /\ call.mastered = 60 * ScoreDen

\* The lists weightedRandom is called on: the top 10 of selectNextProblem in
\* each phase and the top 8 of selectDrillProblem.
WeightedLists ==
    LET flow == {FinalScored(sessionAttempts, phase) : phase \in Phases}
        drill == DrillScored(drillPool, sessionAttempts)
    IN  {TopSeq(b, TopIndices(b, 10)) : b \in {x \in flow : Len(x) > 0}}
        \cup (IF Len(drill) > 0 THEN {TopSeq(drill, TopIndices(drill, 8))} ELSE {})

\* max(1, score) of the first n items, summed.
RECURSIVE SumOfFlooredScores(_, _)
SumOfFlooredScores(list, n) ==
    IF n = 0 THEN 0
    ELSE SumOfFlooredScores(list, n - 1)
         + (IF list[n].score > ScoreDen THEN list[n].score ELSE ScoreDen)

\* C13: on a non-empty list weightedRandom gives each item the weight
\* max(1, score); for a draw r in [0, totalWeight) it returns the first item
\* in list order whose interval of cumulative weight, from the weights before
\* it to the weights up to it, holds r; what it returns is a member of the
\* list; and every item, one of score 0 too, is returned for some draw.
C13_WeightedRandomDraw ==
    \A list \in WeightedLists :
        LET upTo == [n \in 0..Len(list) |-> SumOfFlooredScores(list, n)]
            Holds(i, r) == upTo[i - 1] <= r /\ r <= upTo[i]
            got == [r \in Draws(list) |-> weightedRandomAt(list, r)]
        IN  /\ TotalWeight(list) = upTo[Len(list)]
            /\ \A r \in DOMAIN got :
                  \E i \in 1..Len(list) :
                      /\ got[r] = list[i]
                      /\ Holds(i, r)
                      /\ \A j \in 1..(i - 1) : ~Holds(j, r)
            /\ \A i \in 1..Len(list) : \E r \in DOMAIN got : got[r] = list[i]

\* A list of three or more items with different scores whose last item has
\* score 0; the draw just below totalWeight returns that item, the draw 0 the
\* first one.
C13_Witness ==
    \E list \in WeightedLists :
        /\ Len(list) >= 3
        /\ list[Len(list)].score = 0
        /\ list[1].score > list[2].score
        /\ list[2].score > ScoreDen
        /\ weightedRandomAt(list, TotalWeight(list) - 1) = list[Len(list)]
        /\ weightedRandomAt(list, 0) = list[1]
        /\ weightedRandomAt(list, Weight(list[1]) + 1) = list[2]

\* What selection must leave as it is.
SharedData ==
    [currentPool |-> currentPool, drillPool |-> drillPool, store |-> store,
     sessionAttempts |-> sessionAttempts]

\* The sort of items changes their order.
SortReorders(items) == SortedRecords(items) # [i \in 1..Len(items) |-> items[i].record]

StaleEntries ==
    {i \in 1..Len(currentPool) :
        /\ currentPool[i].r.operation \in EnabledOps(settings)
        /\ ~currentPool[i].shared
        /\ currentPool[i].r.key \in DOMAIN store
        /\ currentPool[i].r # store[currentPool[i].r.key]}

\* C15: in selectNextProblem every pool entry whose key has a record in the
\* store is filtered and scored in the stored record's state, not in the state
\* of the pool's own object: the candidates, and the records of the scored
\* list in every phase, are the stored records, with the priority of the
\* stored record.
C15_PersistedStateUsed ==
    LET candidates == Candidates(currentPool, settings, store)
    IN  /\ \A i \in 1..Len(candidates) :
              candidates[i].key \in DOMAIN store
                => candidates[i] = store[candidates[i].key]
        /\ \A phase \in Phases :
              LET kept == PhaseFilter(candidates, phase)
                  balanced == FinalScored(sessionAttempts, phase)
              IN  /\ \A i \in 1..Len(kept) :
                        kept[i].key \in DOMAIN store => kept[i] = store[kept[i].key]
                  /\ \A i \in 1..Len(balanced) :
                        balanced[i].record.key \in DOMAIN store
                          => balanced[i].record = store[balanced[i].record.key]
                  /\ Len(sessionAttempts) = 0 =>
                        \A i \in 1..Len(balanced) :
                            balanced[i].record.key \in DOMAIN store
                              => balanced[i].score
                                   = calculatePriority(store[balanced[i].record.key],
                                                       sessionAttempts, 0)

\* processAnswer has just saved the first record of a problem, an object other
\* than the pool's entry, which still shows no attempt; the candidate of that
\* key has the stored easeFactor, counters and nextReviewDate.
C15_Witness ==
    /\ sessionAttempts # <<>>
    /\ \E i \in StaleEntries :
          LET key == currentPool[i].r.key
              candidates == Candidates(currentPool, settings, store)
          IN  /\ sessionAttempts[Len(sessionAttempts)].problemKey = key
              /\ currentPool[i].r.totalAttempts = 0
              /\ store[key].totalAttempts = 1
              /\ store[key].nextReviewDate # NoDate
              /\ store[key].easeFactor # currentPool[i].r.easeFactor
              /\ \E j \in 1..Len(candidates) : candidates[j] = store[key]

\* The list balanceOperations is called on in selectNextProblem.
Interleaved(phase) ==
    LET candidates == PhaseFilter(Candidates(currentPool, settings, store), phase)
        Score(r) == Scored(r, calculatePriority(r, sessionAttempts, Len(sessionAttempts)))
    IN  applyInterleaving(MapSeq(candidates, Score), sessionAttempts)

\* C16: balanceOperations returns the records it got, in the same order, and
\* changes scores only; no candidate, and so no operation, is removed or added
\* by balancing.
C16_BalanceKeepsCandidates ==
    \A phase \in Phases :
        LET before == Interleaved(phase)
            after == balanceOperations(before, sessionAttempts, EnabledOps(settings))
        IN  /\ Len(after) = Len(before)
            /\ \A i \in 1..Len(before) : after[i].record = before[i].record
            /\ DOMAIN after = DOMAIN before
            /\ \A i \in 1..Len(after) : DOMAIN after[i] = {"record", "score"}

\* Four attempts, three of one operation: the candidates of that operation get
\* 0.6 and stay in the list, those of the other operation get 1.5.
C16_Witness ==
    /\ Len(sessionAttempts) >= 4
    /\ LET before == Interleaved("core")
           after == balanceOperations(before, sessionAttempts, EnabledOps(settings))
       IN  /\ \E i \in 1..Len(before) :
                /\ before[i].score > 0
                /\ 5 * after[i].score = 3 * before[i].score
                /\ 10 * OpCount(before[i].record.operation, sessionAttempts)
                      * Cardinality(EnabledOps(settings)) > 13 * Len(sessionAttempts)
           /\ \E i \in 1..Len(before) :
                /\ before[i].score > 0
                /\ 2 * after[i].score = 3 * before[i].score

\* The records of the store.
StoredRecords == {store[k] : k \in DOMAIN store}

\* C17: getDrillProblems returns exactly the stored records of an enabled
\* operation with totalAttempts >= 2 and with accuracy below 0.7 or easeFactor
\* below 1.8, each once, in order of non-decreasing accuracy
\* (totalCorrect / totalAttempts); a record with totalAttempts = 1 is not
\* returned, whatever its accuracy.
C17_DrillProblems ==
    call.op = "getDrillProblems" =>
        LET pool == call.result
        IN  /\ {pool[i] : i \in 1..Len(pool)}
                 = {r \in StoredRecords :
                      /\ r.operation \in settings.enabled
                      /\ r.totalAttempts >= 2
                      /\ (10 * r.totalCorrect < 7 * r.totalAttempts
                            \/ r.easeFactor < 180)}
            /\ \A i, j \in 1..Len(pool) : i # j => pool[i] # pool[j]
            /\ \A i, j \in 1..Len(pool) :
                  i < j => pool[i].totalCorrect * pool[j].totalAttempts
                             <= pool[j].totalCorrect * pool[i].totalAttempts
            /\ \A i \in 1..Len(pool) : pool[i].totalAttempts # 1

\* getDrillProblems has returned, from a store that holds a record of an
\* enabled operation with one attempt and accuracy 0, a record of a disabled
\* operation that passes the other tests, and a record with accuracy 0.75 and
\* ease below 1.8: the last one comes after records of three lower accuracies.
C17_Witness ==
    /\ call.op = "getDrillProblems"
    /\ \E r \in StoredRecords :
          /\ r.operation \in settings.enabled
          /\ r.totalAttempts = 1
          /\ r.totalCorrect = 0
    /\ \E r \in StoredRecords :
          /\ r.operation \notin settings.enabled
          /\ r.totalAttempts >= 2
          /\ 10 * r.totalCorrect < 7 * r.totalAttempts
    /\ LET pool == call.result
       IN  /\ Len(pool) >= 4
           /\ pool[1].totalCorrect = 0
           /\ 4 * pool[Len(pool)].totalCorrect = 3 * pool[Len(pool)].totalAttempts
           /\ pool[Len(pool)].easeFactor < 180
           /\ \A i \in 1..(Len(pool) - 1) :
                 pool[i].totalCorrect * pool[i + 1].totalAttempts
                    < pool[i + 1].totalCorrect * pool[i].totalAttempts

C19_GeneratedWellFormed ==
    Returned =>
        LET p == call.result
        IN  /\ p # NullProblem
            /\ p.operation = call.operation
            /\ p.key = canonicalizeProblemKey(p.operation, p.a, p.b)
            /\ p.operation = "add" => p.answer = p.a + p.b
            /\ p.operation = "mul" => p.answer = p.a * p.b
            /\ p.operation = "sub" => p.a > p.b /\ p.answer = p.a - p.b /\ p.answer > 0
            /\ p.operation = "div" =>
                  /\ p.a = p.b * p.answer
                  /\ p.answer = call.a
                  /\ p.b = call.b
            /\ p \in generateRandomProblem(p.operation, settings)

\* A sub call drew equal operands, called itself, then drew a below b and
\* returned the larger one first.
C19_Witness ==
    /\ Returned
    /\ call.operation = "sub"
    /\ call.depth >= 1
    /\ call.a < call.b
    /\ call.result.a = call.b
    /\ call.result.b = call.a
    /\ call.result.answer = call.b - call.a

\* C20: every call of generateRandomProblem(op), for each of the four
\* operations and every range with minA <= maxA and minB <= maxB, ends by
\* returning a problem: a call that is drawing leads to its return.
C20_AlwaysReturns == Drawing ~> Returned

\* C21: canonicalizeProblemKey gives add and mul one key for both orders of
\* the operands; for sub and div the keys of (a, b) and (b, a) differ whenever
\* a differs from b; and keys of different operations never coincide.  The
\* key string of a call equals the key string of another call exactly when
\* both spell the same operation and operands.
C21_KeySymmetry ==
    call.op = "canonicalizeProblemKey" =>
        /\ call.operation \in {"add", "mul"} => call.key = call.exchanged
        /\ (call.operation \in {"sub", "div"} /\ call.a # call.b)
              => call.key # call.exchanged
        /\ LET spelled == canonicalizeProblemKey(call.operation, call.a, call.b)
           IN  \A operation \in Operations, a \in KeyOperands, b \in KeyOperands :
                  LET same == KeyString(operation, a, b) = call.key
                  IN  /\ operation # call.operation => ~same
                      /\ same <=> (canonicalizeProblemKey(operation, a, b) = spelled)

\* add with 7 and 3 gives the key of add with 3 and 7, "add:3x7".
C21_Witness ==
    /\ call.op = "canonicalizeProblemKey"
    /\ call.operation = "add"
    /\ call.a = 7
    /\ call.b = 3
    /\ call.key = <<"a", "d", "d", ":", "3", "x", "7">>
    /\ call.exchanged = call.key

\* C22: after mergeCloudIntoLocal the local problem records hold every key of
\* the local or the cloud records; a record's totalAttempts is the larger of
\* the local and the cloud value; on a tie the local record stays, a key of
\* the cloud alone takes the cloud record; no totalAttempts gets lower.
C22_MoreAttemptsWins ==
    call.op = "mergeCloudIntoLocal" =>
        LET localRecords == call.localRecords
            cloudRecords == call.cloudRecords
        IN  /\ DOMAIN store = DOMAIN localRecords \cup DOMAIN cloudRecords
            /\ \A key \in DOMAIN store :
                 /\ key \in DOMAIN localRecords /\ key \in DOMAIN cloudRecords =>
                      /\ store[key].totalAttempts =
                            Max(localRecords[key].totalAttempts, cloudRecords[key].totalAttempts)
                      /\ store[key] \in {localRecords[key], cloudRecords[key]}
                      /\ localRecords[key].totalAttempts = cloudRecords[key].totalAttempts
                            => store[key] = localRecords[key]
                 /\ key \notin DOMAIN cloudRecords => store[key] = localRecords[key]
                 /\ key \notin DOMAIN localRecords => store[key] = cloudRecords[key]
                 /\ key \in DOMAIN localRecords =>
                      store[key].totalAttempts >= localRecords[key].totalAttempts

\* C22 witness: a merge where one key has more attempts in the cloud and the
\* other key the same number in both, in records that differ.
C22_Witness ==
    /\ call.op = "mergeCloudIntoLocal"
    /\ DOMAIN call.localRecords = MergeKeys
    /\ DOMAIN call.cloudRecords = MergeKeys
    /\ call.cloudRecords[<<"add", 1, 2>>].totalAttempts
          > call.localRecords[<<"add", 1, 2>>].totalAttempts
    /\ store[<<"add", 1, 2>>] = call.cloudRecords[<<"add", 1, 2>>]
    /\ call.cloudRecords[<<"mul", 2, 3>>].totalAttempts = 2
    /\ call.localRecords[<<"mul", 2, 3>>].totalAttempts = 2
    /\ call.cloudRecords[<<"mul", 2, 3>>] # call.localRecords[<<"mul", 2, 3>>]
    /\ store[<<"mul", 2, 3>>] = call.localRecords[<<"mul", 2, 3>>]

\* The operations of the records in a sequence.
OperationsOf(records) == {records[i].operation : i \in 1..Len(records)}

\* C23 as stated: in a session, when the pool holds candidates of two or more
\* enabled operations, no three consecutive entries of sessionAttempts have
\* the same operation, in any phase.
C23_NoThreeInARow ==
    Cardinality(OperationsOf(Candidates(currentPool, settings, store))) >= 2 =>
        \A i \in 1..(Len(sessionAttempts) - 2) :
            ~ /\ sessionAttempts[i].operation = sessionAttempts[i + 1].operation
              /\ sessionAttempts[i].operation = sessionAttempts[i + 2].operation

\* C23, amended: in a session, after two consecutive attempts of one
\* operation, the next attempt is of another operation whenever the candidates
\* that the phase filter of the current phase leaves hold a record of another
\* operation.
C23_SwitchAfterPhaseFilter ==
    [][ LET n == Len(sessionAttempts)
            filtered == PhaseFilter(Candidates(currentPool, settings, store),
                                    ToLowerCase(state))
        IN  ( /\ Len(sessionAttempts') = n + 1
              /\ n >= 2
              /\ sessionAttempts[n].operation = sessionAttempts[n - 1].operation
              /\ OperationsOf(filtered) \ {sessionAttempts[n].operation} # {} )
            => sessionAttempts'[n + 1].operation # sessionAttempts[n].operation ]_vars

\* C23 witness: the state is still WARMUP, so the three attempts of the session
\* were selected in the warmup phase; the first two are of one operation and
\* the third is of another.
C23_Witness ==
    /\ state = "WARMUP"
    /\ Len(sessionAttempts) = 3
    /\ sessionAttempts[1].operation = sessionAttempts[2].operation
    /\ sessionAttempts[3].operation # sessionAttempts[2].operation

\* The change of easeFactor for each quality, in hundredths, as a table.
EaseChange == [q \in Qualities |->
                 IF q = 5 THEN 10 ELSE IF q = 4 THEN 0 ELSE IF q = 3 THEN -14
                 ELSE IF q = 1 THEN -54 ELSE -80]

\* C24: updateSM2 moves easeFactor by +0.10 for quality 5, 0 for 4, -0.14 for
\* 3, -0.54 for 1 and -0.80 for 0, on a pass and on a failure alike, and then
\* clamps it to [1.3, 3.0].
C24_EaseAdjustment ==
    IsUpdate =>
        LET moved == call.pre.easeFactor + EaseChange[call.quality]
        IN  rec.easeFactor =
                IF moved < MIN_EASE THEN MIN_EASE
                ELSE IF moved > MAX_EASE THEN MAX_EASE ELSE moved

\* C24 witness: a failure of quality 1 takes the ease from 2.5 to 1.96, and a
\* failure of quality 0 after it takes 1.96 to the lower bound 1.3.
C24_Witness ==
    /\ IsUpdate /\ call.quality = 0
    /\ call.pre.easeFactor = 196 /\ rec.easeFactor = MIN_EASE
    /\ call.pre.repetitions = 0 /\ call.pre.interval = 0

\* C25: a recordAttempt call adds 1 to totalAttempts and responseTimeMs to
\* totalTimeMs and sets lastResponseTimeMs; a correct answer adds 1 to
\* totalCorrect and to streak and makes bestStreak the larger of bestStreak
\* and the new streak; a wrong answer sets streak to 0 and leaves totalCorrect
\* and bestStreak; key, operation, operandA, operandB and correctAnswer stay;
\* the quality returned is gradeResponse of the call's inputs, and it is the
\* quality the ease was moved by.
C25_RecordAttemptBookkeeping ==
    call.op = "recordAttempt" =>
        LET pre == call.pre
            graded == gradeResponse(call.isCorrect, call.responseTimeMs,
                                    SM2TimerLimit, call.timedOut)
        IN  /\ rec.totalAttempts = pre.totalAttempts + 1
            /\ rec.totalTimeMs = pre.totalTimeMs + call.responseTimeMs
            /\ rec.lastResponseTimeMs = call.responseTimeMs
            /\ call.isCorrect =>
                 /\ rec.totalCorrect = pre.totalCorrect + 1
                 /\ rec.streak = pre.streak + 1
                 /\ rec.bestStreak = Max(pre.bestStreak, rec.streak)
            /\ ~call.isCorrect =>
                 /\ rec.streak = 0
                 /\ rec.totalCorrect = pre.totalCorrect
                 /\ rec.bestStreak = pre.bestStreak
            /\ rec.key = pre.key /\ rec.operation = pre.operation
            /\ rec.operandA = pre.operandA /\ rec.operandB = pre.operandB
            /\ rec.correctAnswer = pre.correctAnswer
            /\ call.quality = graded
            /\ rec.easeFactor = ClampEase(pre.easeFactor + EaseDelta(graded))
            /\ (graded < 3) = (rec.repetitions = 0)

\* C25 witness: a wrong answer ends a streak of three, which stays the best
\* streak.
C25_Witness ==
    /\ call.op = "recordAttempt" /\ ~call.isCorrect
    /\ call.pre.streak = 3 /\ call.pre.bestStreak = 3
    /\ rec.streak = 0 /\ rec.bestStreak = 3
    /\ rec.totalAttempts = 4 /\ rec.totalCorrect = 3
    /\ rec.totalTimeMs = call.pre.totalTimeMs + call.responseTimeMs

\* The session's attempts on the record's problem, as positions.
OwnAttempts == {i \in 1..Len(sessionAttempts) : sessionAttempts[i].problemKey = rec.key}

\* The attempts made after the most recent one on the record's problem.
AttemptsSince == Len(sessionAttempts) - CHOOSE i \in OwnAttempts : \A j \in OwnAttempts : j <= i

\* The recency reduction as the claims state it.
StatedRecency ==
    IF OwnAttempts = {} THEN 0
    ELSE IF AttemptsSince < 5 THEN (5 - AttemptsSince) * 20 ELSE 0

\* The wrong attempts of the session on the record's problem.
OwnWrong == Cardinality({i \in OwnAttempts : ~sessionAttempts[i].isCorrect})

\* C26: calculatePriority is max(0, 50 + due + accuracyDeficit + difficulty +
\* sessionMistakes - recency + slowness).  With n = totalAttempts > 0 the sum,
\* times 10 n, is 10 n (50 + due + 15 wrong - recency + slowness)
\* + 400 (n - totalCorrect) + n (300 - easeFactor in hundredths); scores
\* are kept times ScoreDen.
C26_PriorityFormula ==
    call.op = "calculatePriority" =>
        LET n == rec.totalAttempts
            due == IF rec.nextReviewDate = NoDate THEN 20
                   ELSE IF today >= rec.nextReviewDate
                        THEN (IF 10 + 5 * (today - rec.nextReviewDate) < 30
                              THEN 10 + 5 * (today - rec.nextReviewDate) ELSE 30)
                   ELSE 0
            slowness == IF n > 0 /\ rec.totalTimeMs > 7000 * n THEN 10 ELSE 0
            whole == 50 + due + 15 * OwnWrong - StatedRecency + slowness
            sum10n == IF n > 0
                      THEN 10 * n * whole + 400 * (n - rec.totalCorrect)
                              + n * (300 - rec.easeFactor)
                      ELSE 10 * whole + (300 - rec.easeFactor)
            m == IF n > 0 THEN 10 * n ELSE 10
        IN  m * call.score = (IF sum10n > 0 THEN sum10n ELSE 0) * ScoreDen

\* C26 witness: a record answered wrong in this session, two attempts ago, on
\* the second day or later; it is due today, has wrong answers behind it and
\* is slow on average: every factor is in the score.
C26_Witness ==
    /\ call.op = "calculatePriority"
    /\ today >= 2 /\ rec.nextReviewDate = today
    /\ rec.totalCorrect < rec.totalAttempts
    /\ rec.totalTimeMs > 7000 * rec.totalAttempts
    /\ rec.easeFactor < MAX_EASE
    /\ OwnWrong = 1
    /\ OwnAttempts # {} /\ AttemptsSince = 2
    /\ call.score > 0

\* C27: the recency penalty is set by the most recent session attempt on the
\* problem alone: against the score for a session without attempts, the score
\* before the floor is lower by (5 - k) * 20 when k < 5 attempts were made
\* after that attempt, and by nothing when k >= 5 or the problem was not
\* attempted (15 a wrong attempt is added either way).
C27_RecencyPenalty ==
    call.op = "calculatePriority" =>
        /\ call.raw = call.idle + (15 * OwnWrong - StatedRecency) * ScoreDen
        /\ call.score = (IF call.raw > 0 THEN call.raw ELSE 0)
        /\ (OwnAttempts # {} /\ AttemptsSince = 0) =>
              call.raw = call.idle + (15 * OwnWrong - 100) * ScoreDen

\* C27 witness: the problem was attempted in this session, five attempts
\* ago, and answered wrong: no penalty is left.
C27_Witness ==
    /\ call.op = "calculatePriority"
    /\ OwnWrong = 1
    /\ AttemptsSince = 5
    /\ call.raw = call.idle + 15 * OwnWrong * ScoreDen

\* C28: in warmup the candidates are cut to those with easeFactor >= 2.3 or
\* totalAttempts = 0 when there are at least 5 of them; in challenge to those
\* with totalAttempts > 0 and easeFactor < 2.0 or accuracy < 0.7 when there
\* are at least 3 of them; otherwise, and for every other phase value, all
\* candidates are kept; the filtered candidates are never empty.
C28_PhaseFiltering ==
    (call.op = "selectNextProblem" /\ "filtered" \in DOMAIN call) =>
        LET all == call.candidates
            StatedEasy(r) == r.easeFactor >= 230 \/ r.totalAttempts = 0
            StatedHard(r) ==
                /\ r.totalAttempts > 0
                /\ (r.easeFactor < 200 \/ 10 * r.totalCorrect < 7 * r.totalAttempts)
            easy == SelectSeq(all, StatedEasy)
            hard == SelectSeq(all, StatedHard)
        IN  /\ call.filtered # <<>>
            /\ call.filtered =
                 IF call.phase = "warmup" /\ Len(easy) >= 5 THEN easy
                 ELSE IF call.phase = "challenge" /\ Len(hard) >= 3 THEN hard
                 ELSE all

\* C28 witness: a warmup call with five easy candidates out of six: the sixth
\* is dropped.
C28_Witness ==
    /\ call.op = "selectNextProblem" /\ "filtered" \in DOMAIN call
    /\ call.phase = "warmup"
    /\ Len(call.candidates) = 6
    /\ Len(call.filtered) = 5
    /\ \E i \in 1..5 : call.filtered[i].totalAttempts > 0
    /\ \E i \in 1..5 : call.filtered[i].totalAttempts = 0

\* The candidates of a selectNextProblem call for a phase, scored: what
\* applyInterleaving is given.
ScoredFor(phase) ==
    LET Score(r) == Scored(r, calculatePriority(r, sessionAttempts, Len(sessionAttempts)))
    IN  MapSeq(PhaseFilter(Candidates(currentPool, settings, store), phase), Score)

\* Whether the session's last two attempts exist and are of one operation.
LastTwoAlike ==
    /\ Len(sessionAttempts) >= 2
    /\ sessionAttempts[Len(sessionAttempts) - 1].operation
          = sessionAttempts[Len(sessionAttempts)].operation

\* C29: in the phase the state spells, with at least one attempt, and the last two not both there and of one
\* operation, applyInterleaving halves the score of every candidate of the
\* most recent attempt's operation, leaves the other scores and removes no
\* candidate; in no other case is a score changed; when the last two attempts
\* are of one operation and every candidate is of it, the candidates come
\* back as they are.
C29_SoftInterleaving ==
    \A phase \in {ToLowerCase(state)} :
        LET scored == ScoredFor(phase)
            out == applyInterleaving(scored, sessionAttempts)
            n == Len(sessionAttempts)
        IN  /\ (n >= 1 /\ ~LastTwoAlike) =>
                 /\ Len(out) = Len(scored)
                 /\ \A i \in 1..Len(scored) :
                      /\ out[i].record = scored[i].record
                      /\ IF scored[i].record.operation = sessionAttempts[n].operation
                         THEN 2 * out[i].score = scored[i].score
                         ELSE out[i].score = scored[i].score
            /\ (n = 0 \/ LastTwoAlike) =>
                 \A i \in 1..Len(out) : \E j \in 1..Len(scored) : out[i] = scored[j]
            /\ ( LastTwoAlike
                 /\ \A i \in 1..Len(scored) :
                       scored[i].record.operation = sessionAttempts[n].operation )
                 => out = scored

\* C29 witness: the problem selected after four attempts, the last two of
\* them of different operations; a candidate of the last operation has a
\* positive score, which is halved.
C29_Witness ==
    /\ selection.open
    /\ Len(sessionAttempts) = 4
    /\ ~LastTwoAlike
    /\ LET scored == ScoredFor(selection.phase)
           out == applyInterleaving(scored, sessionAttempts)
       IN  \E i \in 1..Len(scored) :
             /\ scored[i].record.operation = sessionAttempts[4].operation
             /\ scored[i].score > 0
             /\ 2 * out[i].score = scored[i].score
             /\ \E j \in 1..Len(scored) :
                   /\ scored[j].record.operation # sessionAttempts[4].operation
                   /\ out[j].score = scored[j].score

\* C30: in the phase the state spells, with fewer than 4 session attempts balanceOperations changes no score;
\* with 4 or more and n enabled operations, the score of a candidate whose
\* operation has a share of the attempts below 0.7 / n is multiplied by 1.5,
\* above 1.3 / n by 0.6, and is left otherwise; no operation is both below
\* and above.
C30_OperationBalance ==
    \A phase \in {ToLowerCase(state)} :
        LET given == applyInterleaving(ScoredFor(phase), sessionAttempts)
            out == balanceOperations(given, sessionAttempts, EnabledOps(settings))
            total == Len(sessionAttempts)
            n == Cardinality(EnabledOps(settings))
            Count(op) == Cardinality({i \in 1..total : sessionAttempts[i].operation = op})
            Below(op) == 10 * n * Count(op) < 7 * total
            Above(op) == 10 * n * Count(op) > 13 * total
        IN  /\ total < 4 => out = given
            /\ Len(out) = Len(given)
            /\ total >= 4 =>
                 \A i \in 1..Len(given) :
                    LET op == given[i].record.operation
                    IN  /\ out[i].record = given[i].record
                        /\ ~(Below(op) /\ Above(op))
                        /\ Below(op) => 2 * out[i].score = 3 * given[i].score
                        /\ Above(op) => 5 * out[i].score = 3 * given[i].score
                        /\ (~Below(op) /\ ~Above(op)) => out[i].score = given[i].score

\* C30 witness: the problem selected after four attempts, three of them mul
\* and one add, with both enabled: the add candidates are boosted, the mul
\* candidates are reduced.
C30_Witness ==
    /\ selection.open
    /\ Len(sessionAttempts) = 4
    /\ EnabledOps(settings) = {"add", "mul"}
    /\ Cardinality({i \in 1..4 : sessionAttempts[i].operation = "mul"}) = 3
    /\ LET given == applyInterleaving(ScoredFor(selection.phase), sessionAttempts)
           out == balanceOperations(given, sessionAttempts, EnabledOps(settings))
       IN  /\ \E i \in 1..Len(given) :
                 /\ given[i].record.operation = "add" /\ given[i].score > 0
                 /\ 2 * out[i].score = 3 * given[i].score
           /\ \E i \in 1..Len(given) :
                 /\ given[i].record.operation = "mul" /\ given[i].score > 0
                 /\ 5 * out[i].score = 3 * given[i].score

\* The final candidates of the selection that is open.
SelectionScored == FinalScored(sessionAttempts, selection.phase)

\* The candidates a strictly higher final score than that of items[i] goes to.
Above(items, i) == {j \in 1..Len(items) : items[j].score > items[i].score}

\* C31: a problem selectNextProblem returns from a non-empty candidate set is
\* the snapshot of a candidate that fewer than ten candidates beat on the
\* final score: it is among the min(10, n) highest.
C31_TopTen ==
    (selection.open /\ EnabledOps(settings) # {}
       /\ Len(Candidates(currentPool, settings, store)) > 0)
    => LET final == SelectionScored
       IN  \E i \in 1..Len(final) :
              /\ selection.problem = ProblemOf(final[i].record)
              /\ Cardinality(Above(final, i)) < 10
              /\ selection.problem.operation = final[i].record.operation
              /\ selection.problem.a = final[i].record.operandA
              /\ selection.problem.b = final[i].record.operandB
              /\ selection.problem.answer = final[i].record.correctAnswer
              /\ selection.problem.key = final[i].record.key

\* C31 witness: after an answer, more than ten candidates of which one is
\* beaten by ten others; the problem returned is beaten by exactly nine.
C31_Witness ==
    /\ selection.open
    /\ Len(sessionAttempts) = MaxTopSession
    /\ LET final == SelectionScored
       IN  /\ Len(final) > 10
           /\ \E j \in 1..Len(final) : Cardinality(Above(final, j)) >= 10
           /\ \E i \in 1..Len(final) :
                 /\ selection.problem = ProblemOf(final[i].record)
                 /\ Cardinality(Above(final, i)) = 9

\* The place of a phase in the order of the session.
PhaseRank(s) == IF s = "WARMUP" THEN 0 ELSE IF s = "CORE" THEN 1 ELSE 2

SessionPhases == {"WARMUP", "CORE", "CHALLENGE"}

\* C32: in a session the state changes only from WARMUP to CORE with the
\* warmup count of attempts made, from CORE to CHALLENGE with 80% of the
\* duration gone, from a phase to PAUSED remembering that phase, from PAUSED
\* back to exactly that phase, or to REVIEWING; the phase remembered does not
\* change during the pause, so no phase is entered again after it was left.
C32_PhasesForward ==
    [][ /\ state' # state =>
            \/ /\ state = "WARMUP" /\ state' = "CORE"
               /\ Len(sessionAttempts) >= WarmupCount(sessionMode)
            \/ /\ state = "CORE" /\ state' = "CHALLENGE"
               /\ sessionClock' >= 1
            \/ /\ state \in SessionPhases /\ state' = "PAUSED"
               /\ pausedState' = state
            \/ /\ state = "PAUSED" /\ state' = pausedState
               /\ state' \in SessionPhases
            \/ /\ state \in SessionPhases /\ state' = "REVIEWING"
        /\ (state = "PAUSED" /\ state' = "PAUSED") => pausedState' = pausedState
        /\ (state \in SessionPhases /\ state' \in SessionPhases)
              => PhaseRank(state') >= PhaseRank(state)
        /\ state' = "CORE" => Len(sessionAttempts') >= WarmupCount(sessionMode')
        /\ state' = "CHALLENGE" =>
              /\ Len(sessionAttempts') >= WarmupCount(sessionMode')
              /\ sessionClock' >= 1
      ]_vars

\* C32 witness: the session went from WARMUP to CORE and CHALLENGE, was paused
\* there and resumed.
C32_Witness ==
    /\ state = "CHALLENGE"
    /\ pausedState = "CHALLENGE"
    /\ ~resumeArmed
    /\ Len(sessionAttempts) >= WarmupCount(sessionMode)

\* The calendar date of the instant t on the user's local clock, as
\* Date.prototype.getDate reads it.
LocalDate(t) == (t + OffsetAt(tz, t)) \div 24

\* C33: the date recordAttempt takes as today, for updateSM2's interval
\* arithmetic, is the calendar date of the call on the local clock, at every
\* time of day in every time zone.
C33_TodayIsLocalDate ==
    [][(call' # call /\ call'.op = "recordAttempt") => call'.at = LocalDate(now)]_vars

\* Every stored record was attempted and has its review date.
StoredAttempted ==
    \A k \in DOMAIN store :
        /\ store[k].key = k
        /\ store[k].totalAttempts >= 1
        /\ store[k].nextReviewDate # NoDate

\* A step that changes the store appends an attempt and changes the record of
\* that attempt's problem only.
StoredByAttempt ==
    store' # store =>
        /\ Len(sessionAttempts') = Len(sessionAttempts) + 1
        /\ LET k == sessionAttempts'[Len(sessionAttempts')].problemKey
           IN  /\ DOMAIN store' = DOMAIN store \cup {k}
               /\ \A j \in DOMAIN store \ {k} : store'[j] = store[j]
               /\ store'[k].totalAttempts =
                    (IF k \in DOMAIN store THEN store[k].totalAttempts ELSE 0) + 1

\* C34 as stated: an object of the pool has totalAttempts = 0 exactly when the
\* store has no record under its key.
C34_PoolObjectUnattempted ==
    \A i \in 1..Len(currentPool) :
        (currentPool[i].r.totalAttempts = 0) <=> (currentPool[i].r.key \notin DOMAIN store)

\* C34: records are stored by attempts only, every stored record has
\* totalAttempts >= 1 and a review date, and a pool problem as selectNextProblem
\* reads it, with the persisted state substituted, has totalAttempts = 0
\* exactly when it has no stored record.
C34_StoredWhenAttempted ==
    /\ [](/\ StoredAttempted
          /\ LET candidates == Candidates(currentPool, settings, store)
             IN  \A i \in 1..Len(candidates) :
                    (candidates[i].totalAttempts = 0)
                       <=> (candidates[i].key \notin DOMAIN store))
    /\ [][StoredByAttempt]_vars

\* C34 witness: a problem was selected from a pool of which one problem is
\* stored, as an object the pool built before the attempt does not share, and
\* another has no record.
C34_Witness ==
    /\ selection.open
    /\ selection.problem # NullProblem
    /\ \E i, j \in 1..Len(currentPool) :
          /\ currentPool[i].r.key \in DOMAIN store
          /\ ~currentPool[i].shared
          /\ currentPool[i].r.operation \in EnabledOps(settings)
          /\ currentPool[j].r.key \notin DOMAIN store
          /\ currentPool[j].r.operation \in EnabledOps(settings)

Indices(f) == {f[k] : k \in 1..Len(f)}

\* The items flush puts back: the entries of batch that failed names.
Back == [k \in 1..Len(failed) |-> batch[failed[k]]]

\* The catch of a failure pushes the entries with retries left, counted once
\* more, and no entry without: pre is the batch before the catch, among is
\* the entries the failure concerns, pushed the entries the catch pushed.
RetryOrDrop(pre, among, pushed) ==
    \A i \in among :
        /\ pre[i].retries < maxRetries =>
              /\ i \in pushed
              /\ batch'[i].retries > pre[i].retries
        /\ pre[i].retries >= maxRetries =>
              /\ i \notin pushed
              /\ batch'[i].retries = pre[i].retries

\* C35: the retries counter of an item never exceeds maxRetries = 3; of the
\* items of a batch that fail, in their preparation or with the commit, those
\* with retries = 3 are not put back and those with fewer are, counted once
\* more; and the items put back are at the front of the queue.
C35_RetriesBounded ==
    /\ [](/\ \A i \in 1..Len(syncQueue) : syncQueue[i].retries <= maxRetries
          /\ \A i \in 1..Len(batch) : batch[i].retries <= maxRetries
          /\ \A i \in 1..Len(storedQueue) : storedQueue[i].retries <= maxRetries
          /\ \A i \in 1..Len(batch) :
                batch[i].bad => /\ i \notin Indices(failed) => batch[i].retries = maxRetries
                                /\ i \in Indices(failed) => batch[i].retries >= 1
          /\ ~syncing => /\ Len(syncQueue) >= Len(failed)
                         /\ persistQueue(SubSeq(syncQueue, 1, Len(failed)))
                              = persistQueue(Back))
    /\ [][(syncing /\ ~syncing' /\ sends' = sends) =>
            /\ RetryOrDrop(batch, 1..Len(batch),
                           {failed'[k] : k \in (Len(failed) + 1)..Len(failed')})
            /\ persistQueue(syncQueue') = persistQueue(Back' \o syncQueue)
         ]_vars

\* C35 witness: a commit was rejected for an item that had failed three times
\* before; it was dropped, and the item that had failed less often was put
\* back at the front of the queue.
C35_Witness ==
    /\ ~syncing
    /\ \E i, j \in 1..Len(batch) :
          /\ ~batch[i].bad
          /\ batch[i].retries = maxRetries
          /\ i \notin Indices(failed)
          /\ sends[batch[i].id] = 0
          /\ \A k \in 1..Len(syncQueue) : syncQueue[k].id # batch[i].id
          /\ j \in Indices(failed)
          /\ batch[j].retries < maxRetries
          /\ syncQueue[1].id = batch[j].id

\* No two entries of a log share an id.
DistinctIds(log) == \A i, j \in 1..Len(log) : log[i].id = log[j].id => i = j

\* C36: after mergeCloudIntoLocal on local sessions and attempts with pairwise
\* distinct ids, no two sessions and no two attempts share an id, whatever the
\* cloud data holds, and merging the same cloud data again changes nothing.
C36_MergeDeduplicates ==
    (call.op = "mergeCloudIntoLocal"
       /\ DistinctIds(call.localSessions) /\ DistinctIds(call.localAttempts))
    => /\ DistinctIds(sessions)
       /\ DistinctIds(attemptLog)
       /\ mergeLog(sessions, call.cloudSessions, MAX_SESSIONS) = sessions
       /\ mergeLog(attemptLog, call.cloudAttempts, MAX_ATTEMPTS) = attemptLog

\* The per-problem timer of a problem presented is pending.
ProblemTimerPending == \E i \in 1..Len(timers) : timers[i].kind = "handleTimeout" /\ timers[i].held

\* C37: a problem is presented with its timer started, and an attempt is
\* recorded, only while the state is WARMUP, CORE, CHALLENGE or DRILLING.
C37_OnlyWhileRunning ==
    /\ [][(ProblemTimerPending' /\ timers' # timers /\ turn' # turn) => Running(state')]_vars
    /\ [][Len(sessionAttempts') > Len(sessionAttempts) => Running(state')]_vars

\* How often the item that enqueue call id made is in a queue.
Copies(queue, id) == Cardinality({i \in 1..Len(queue) : queue[i].id = id})

\* C38: no enqueued item is written to the cloud twice; once a flush has
\* ended, an item that was written is in the queue neither in memory nor in
\* localStorage, and every other item is there at most once.
C38_NoItemTwice ==
    /\ \A id \in 1..Len(sends) : sends[id] <= 1
    /\ ~syncing =>
          \A id \in 1..Len(sends) :
              /\ sends[id] >= 1 => Copies(syncQueue, id) = 0 /\ Copies(storedQueue, id) = 0
              /\ Copies(syncQueue, id) <= 1
              /\ Copies(storedQueue, id) <= 1

\* C39: the driver's recordAttempt calls keep a new record's streak equal to
\* its repetitions, and its interval is 0 exactly when its repetitions are 0.
C39_StreakIsRepetitions ==
    /\ rec.streak = rec.repetitions
    /\ rec.interval = 0 <=> rec.repetitions = 0

\* A failure, then three passes in a row, the last one slow.
C39_Witness ==
    /\ call.op = "recordAttempt"
    /\ rec.totalCorrect < rec.totalAttempts
    /\ rec.repetitions = 3
    /\ rec.streak = 3
    /\ rec.interval > SECOND_INTERVAL
    /\ call.quality = 3

\* The step is one in which a session ends.
SessionEnds == state # "REVIEWING" /\ state' = "REVIEWING"

====
